---- MODULE Spec2Model ----
(***************************************************************************)
(* Tiered data-access layer of mcp-stocks-info-server: cache -> persistent *)
(* store -> provider, for quotes (StockRepositoryImpl over MOEXAPIClient)  *)
(* and for news (NewsRepositoryImpl over NewsAPIClient).                   *)
(*                                                                         *)
(* Every repository method is one atomic action.  A method is written as   *)
(* an operator over a "world" record w that is threaded through the calls  *)
(* the method makes, in the order the Go code makes them:                  *)
(*   w.db      the "stocks" collection, documents in insertion order       *)
(*   w.news    the "news" collection, documents in insertion order         *)
(*   w.cache   the shared cache, a function from the keys present          *)
(*   w.rdOk / w.wrOk   whether store reads / writes succeed in this call   *)
(*   w.up      whether the upstream HTTP provider answers 200              *)
(*   w.upFor / w.wrFor   Nil, or the number of provider requests / store  *)
(*             writes of this call that succeed before the rest fail       *)
(*   w.mkt     which quotes the upstream serves                            *)
(*   w.feed    which articles the upstream serves                          *)
(*   w.nRead, w.nWrite, w.nApi, w.nHttp   what the call has done so far    *)
(*   w.nCache  the cache operations the call has made so far               *)
(*   w.cRdOk / w.cWrOk   whether cache reads / writes succeed in this call *)
(*   w.nApiSet the cache writes the provider clients have made so far      *)
(*   w.got     the last answer the upstream gave to this call              *)
(* and returns [w, res, err, src].                                         *)
(***************************************************************************)
EXTENDS Integers, Sequences, FiniteSets, TLC

VARIABLES
    db,         \* mongo collection "stocks": Seq of [kind, v]
    newsDb,     \* mongo collection "news": Seq of News
    cache,      \* cache.Cache shared by repositories and API clients
    cfg,        \* [useCache, apiCache, inMemory]: r.useCache, m.useCache /
                \* n.useCache, and whether the cache is the InMemoryCache
    now,        \* time.Now()
    faults,     \* store faults injected so far
    last,       \* record of the last repository call
    fn          \* what the news provider has served so far; in SpecID and
                \* SpecIDPair the inputs and outputs of generateNewsID

vars == <<db, newsDb, cache, cfg, now, faults, last, fn>>

(***************************************************************************)
(* Bounds of the model.                                                    *)
(***************************************************************************)
MaxMarket == 2
MaxFaults == 1
MaxUrlLen == 3
MaxPairLen == 2
MaxUniverse == 3
MaxClock == 2
MaxChange == 2

(***************************************************************************)
(* Domain models.                                                          *)
(***************************************************************************)
NIL == "nil"

\* fetchAllStocksFromAPI's defaultTickers
Roster == <<"SBER", "GAZP", "LKOH", "GMKN", "ROSN", "NVTK", "TATN",
            "MTSS", "MGNT", "YNDX", "FIVE", "POLY", "ALRS", "VTBR">>

RosterIdx(t) ==
    IF \E i \in 1..Len(Roster) : Roster[i] = t
      THEN CHOOSE i \in 1..Len(Roster) : Roster[i] = t
      ELSE 0

\* models.Stock; the zero value is what an untouched `var s models.Stock` holds
ZeroStock ==
    [ticker |-> "", name |-> "", price |-> 0, change |-> 0, changePerc |-> 0,
     volume |-> 0, updatedAt |-> 0]

\* models.StockQuote (prices in tenths so that Change * 0.1 stays integral);
\* date is an absolute time in hours
ZeroQuote ==
    [ticker |-> "", open |-> 0, high |-> 0, low |-> 0, close |-> 0,
     volume |-> 0, date |-> 0]

StockDoc(s) == [kind |-> "stock", v |-> s]
QuoteDoc(q) == [kind |-> "quote", v |-> q]

\* bson decoding of a document of the shared collection into models.Stock:
\* the fields whose bson names the document has are filled, the rest stay zero
AsStock(d) ==
    IF d.kind = "stock" THEN d.v
    ELSE [ZeroStock EXCEPT !.ticker = d.v.ticker, !.volume = d.v.volume]

AsQuote(d) ==
    IF d.kind = "quote" THEN d.v
    ELSE [ZeroQuote EXCEPT !.ticker = d.v.ticker, !.volume = d.v.volume]

(***************************************************************************)
(* The upstream quote provider: what the HTTP endpoint serves for ticker t *)
(* while the market is at version v.  parseStockFromResponse copies the    *)
(* ticker from the request, reads name/price/change/changePerc from the    *)
(* row, never reads a volume, and stamps UpdatedAt with time.Now().        *)
(***************************************************************************)
parseStockFromResponse(t, v, at) ==
    [ticker     |-> t,
     name       |-> t,
     price      |-> 100 + 10 * RosterIdx(t) + v,
     change     |-> ((RosterIdx(t) + v) % 5) - 2,
     changePerc |-> ((RosterIdx(t) + 2 * v) % 4) - 1,
     volume     |-> 0,
     updatedAt  |-> at]

(***************************************************************************)
(* Cache port (pkg/cache).  Get on a missing key returns nil and leaves    *)
(* dest as it was, so the caller sees the zero value it passed in.         *)
(***************************************************************************)
CacheGet(c, k, zero) == IF k \in DOMAIN c THEN c[k] ELSE zero

CacheSet(c, k, v) == [x \in (DOMAIN c) \cup {k} |-> IF x = k THEN v ELSE c[x]]

CacheDelete(c, k) == [x \in (DOMAIN c) \ {k} |-> c[x]]

EmptyCache == [x \in {} |-> NIL]

\* cache.Set, whose result every caller drops: a failed Set stores nothing
WSet(w, k, v) ==
    IF w.cWrOk THEN [w EXCEPT !.cache = CacheSet(@, k, v), !.nCache = @ + 1]
    ELSE [w EXCEPT !.nCache = @ + 1, !.nFail = @ + 1]

\* a cache.Get made when the caller's use of the cache is on; the caller
\* uses what it read only if the Get returned no error (w.cRdOk)
CacheRead(w, on) ==
    IF on THEN [w EXCEPT !.nCache = @ + 1, !.nFail = IF w.cRdOk THEN @ ELSE @ + 1]
    ELSE w

\* a cache.Set made by a provider client
ApiSet(w, k, v) == [WSet(w, k, v) EXCEPT !.nApiSet = @ + 1]

(***************************************************************************)
(* Persistent store (mongo.Collection).                                    *)
(***************************************************************************)
\* a returned pointer or slice: nil, or a value
Nil == [nil |-> TRUE]
Some(x) == [nil |-> FALSE, v |-> x]

\* the store write the call is about to make fails: the store is failing, or
\* it stopped taking this call's writes after w.wrFor of them
WriteFails(w) == ~w.wrOk \/ (~w.wrFor.nil /\ w.nWrite >= w.wrFor.v)

\* the request the call is about to send fails: the provider is down, or it
\* stopped answering this call after w.upFor requests
Down(w) == ~w.up \/ (~w.upFor.nil /\ w.nHttp >= w.upFor.v)

Min(S) == CHOOSE x \in S : \A y \in S : x <= y

FirstMatch(d, P(_)) ==
    LET S == {i \in 1..Len(d) : P(d[i])} IN IF S = {} THEN 0 ELSE Min(S)

\* FindOne(filter).Decode: "ok" with the first matching document,
\* "nodoc" (ErrNoDocuments) or "fault" (backend error)
FindOne(w, P(_)) ==
    LET w1 == [w EXCEPT !.nRead = @ + 1]
        i  == FirstMatch(w.db, P)
    IN  IF ~w.rdOk THEN [w |-> [w1 EXCEPT !.nFail = @ + 1], st |-> "fault", doc |-> NIL]
        ELSE IF i = 0 THEN [w |-> w1, st |-> "nodoc", doc |-> NIL]
        ELSE [w |-> w1, st |-> "ok", doc |-> w.db[i]]

\* InsertOne: the collection has no unique index besides _id
InsertOne(w, d) ==
    IF WriteFails(w) THEN [w |-> [w EXCEPT !.nFail = @ + 1], err |-> TRUE]
    ELSE [w |-> [w EXCEPT !.db = Append(@, d), !.nWrite = @ + 1], err |-> FALSE]

\* ReplaceOne(filter, d): replaces the first matching document
ReplaceOne(w, P(_), d) ==
    LET i == FirstMatch(w.db, P)
    IN  IF WriteFails(w) THEN [w |-> [w EXCEPT !.nFail = @ + 1], err |-> TRUE]
        ELSE IF i = 0 THEN [w |-> w, err |-> FALSE]
        ELSE [w |-> [w EXCEPT !.db = [@ EXCEPT ![i] = d], !.nWrite = @ + 1],
              err |-> FALSE]

Ret(w, res, err, src) == [w |-> w, res |-> res, err |-> err, src |-> src]

(***************************************************************************)
(* MOEXAPIClient (provider client for quotes).                             *)
(***************************************************************************)
StockKey(t) == <<"stock", t>>
MoexKey(t)  == <<"moex:stock", t>>
AllKey      == <<"all_stocks">>

\* MOEXAPIClient.GetStock
MOEXGetStock(w, t) ==
    LET w0     == CacheRead([w EXCEPT !.nApi = @ + 1], w.apiCache)
        cached == CacheGet(w.cache, MoexKey(t), ZeroStock)
    IN  IF w.apiCache /\ w.cRdOk /\ cached.ticker # ""
          THEN Ret(w0, Some(cached), FALSE, "cache")
        ELSE LET w1 == [w0 EXCEPT !.nHttp = @ + 1] IN
          IF Down(w) THEN Ret(w1, Nil, TRUE, "provider")
          ELSE LET stock == parseStockFromResponse(t, w.mkt, w.now)
                   w2    == [w1 EXCEPT !.got = Some(stock)]
                   w3    == IF w.apiCache THEN ApiSet(w2, MoexKey(t), stock) ELSE w2
               IN  Ret(w3, Some(stock), FALSE, "provider")

\* MOEXAPIClient.GetStocks: the first failure aborts the whole fetch
RECURSIVE MOEXGetStocksFrom(_, _, _, _)
MOEXGetStocksNext(a, ts, i, acc) ==
    IF a.err THEN Ret(a.w, Nil, TRUE, "provider")
    ELSE MOEXGetStocksFrom(a.w, ts, i + 1, Append(acc, a.res.v))

MOEXGetStocksFrom(w, ts, i, acc) ==
    IF i > Len(ts) THEN Ret(w, Some(acc), FALSE, "provider")
    ELSE MOEXGetStocksNext(MOEXGetStock(w, ts[i]), ts, i, acc)

MOEXGetStocks(w, ts) == MOEXGetStocksFrom(w, ts, 1, <<>>)

(***************************************************************************)
(* StockRepositoryImpl.                                                    *)
(***************************************************************************)
\* fetchStockFromAPI once r.moexAPI.GetStock has returned a
fetchStockReturned(a, swallow) ==
    IF a.err THEN Ret(a.w, Some(ZeroStock), ~swallow, "provider")
    ELSE Ret(a.w, a.res, FALSE, "provider")

\* mutant: the provider's error is swallowed and the zero Stock returned
fetchStockFromAPI_Swallow(w, t) == fetchStockReturned(MOEXGetStock(w, t), TRUE)

\* StockRepositoryImpl.fetchStockFromAPI: (*stockPtr, nil) or (models.Stock{}, err)
fetchStockFromAPI(w, t) == fetchStockReturned(MOEXGetStock(w, t), FALSE)

fetchAllStocksFromAPI(w) == MOEXGetStocks(w, Roster)

\* mutant: a store hit is returned without warming the cache
GetStockFromStore_NoWarm(w, t, stock) == Ret(w, Some(stock), FALSE, "store")

\* GetStock, store hit: write back into the cache, return the record
GetStockFromStore(w, t, stock) ==
    LET w1 == IF w.useCache THEN WSet(w, StockKey(t), stock) ELSE w
    IN  Ret(w1, Some(stock), FALSE, "store")

\* mutant: a fetched quote is cached but never persisted
GetStockFromProvider_CacheOnly(w, t, stock) ==
    LET w2 == IF w.useCache THEN WSet(w, StockKey(t), stock) ELSE w
    IN  Ret(w2, Some(stock), FALSE, "provider")

\* GetStock once InsertOne(stock) has returned i
GetStockInserted(i, t, stock) ==
    IF i.err THEN Ret(i.w, Nil, TRUE, "provider")
    ELSE Ret(IF i.w.useCache THEN WSet(i.w, StockKey(t), stock) ELSE i.w,
             Some(stock), FALSE, "provider")

\* GetStock, provider hit: insert into the store, write into the cache, return
GetStockFromProvider(w, t, stock) ==
    GetStockInserted(InsertOne(w, StockDoc(stock)), t, stock)

\* GetStock once fetchStockFromAPI has returned a
GetStockFetched(a, t) ==
    IF a.err THEN Ret(a.w, Nil, TRUE, "provider")
    ELSE GetStockFromProvider(a.w, t, a.res.v)

\* mutant: the store's record is ignored and the quote fetched again
GetStockFound_Refetch(f, t) == GetStockFetched(fetchStockFromAPI(f.w, t), t)

\* GetStock once FindOne({"ticker": t}) has returned f: any error is a miss
GetStockFound(f, t) ==
    IF f.st = "ok" THEN GetStockFromStore(f.w, t, AsStock(f.doc))
    ELSE GetStockFetched(fetchStockFromAPI(f.w, t), t)

\* mutant: a failed cache read fails the lookup
GetStockCached_Strict(w, t, cached) ==
    IF w.useCache /\ ~w.cRdOk THEN Ret(w, Nil, TRUE, "cache")
    ELSE IF w.useCache /\ cached.ticker # "" THEN Ret(w, Some(cached), FALSE, "cache")
    ELSE GetStockFound(FindOne(w, LAMBDA d : d.v.ticker = t), t)

\* GetStock once the cache has answered `cached`
GetStockCached(w, t, cached) ==
    IF w.useCache /\ w.cRdOk /\ cached.ticker # ""
      THEN Ret(w, Some(cached), FALSE, "cache")
    ELSE GetStockFound(FindOne(w, LAMBDA d : d.v.ticker = t), t)

\* StockRepositoryImpl.GetStock
GetStock(w, t) ==
    GetStockCached(CacheRead(w, w.useCache), t,
                   CacheGet(w.cache, StockKey(t), ZeroStock))

\* Find(filter) + cursor.All decoded as []models.Stock
FindStocks(w, P(_)) ==
    LET w1 == [w EXCEPT !.nRead = @ + 1]
        F[i \in 0..Len(w.db)] ==
            IF i = 0 THEN <<>>
            ELSE IF P(w.db[i]) THEN Append(F[i - 1], AsStock(w.db[i])) ELSE F[i - 1]
    IN  IF ~w.rdOk THEN [w |-> [w1 EXCEPT !.nFail = @ + 1], err |-> TRUE, rows |-> <<>>]
        ELSE [w |-> w1, err |-> FALSE, rows |-> F[Len(w.db)]]

\* for _, stock := range stocks { InsertOne(stock) }: the first error ends it
RECURSIVE InsertAllFrom(_, _, _)
InsertAllNext(r, stocks, i) ==
    IF r.err THEN r ELSE InsertAllFrom(r.w, stocks, i + 1)

InsertAllFrom(w, stocks, i) ==
    IF i > Len(stocks) THEN [w |-> w, err |-> FALSE]
    ELSE InsertAllNext(InsertOne(w, StockDoc(stocks[i])), stocks, i)

\* getAllStocks once the inserts have returned i
getAllStocksInserted(i, stocks) ==
    IF i.err THEN Ret(i.w, Nil, TRUE, "provider")
    ELSE Ret(IF i.w.useCache /\ Len(stocks) > 0 THEN WSet(i.w, AllKey, stocks) ELSE i.w,
             Some(stocks), FALSE, "provider")

\* getAllStocks once fetchAllStocksFromAPI has returned a
getAllStocksFetched(a) ==
    IF a.err THEN Ret(a.w, Nil, TRUE, "provider")
    ELSE getAllStocksInserted(InsertAllFrom(a.w, a.res.v, 1), a.res.v)

\* getAllStocks once Find({}) has returned f
getAllStocksFound(f) ==
    IF f.err THEN Ret(f.w, Nil, TRUE, "store")
    ELSE IF Len(f.rows) > 0
      THEN Ret(IF f.w.useCache THEN WSet(f.w, AllKey, f.rows) ELSE f.w,
               Some(f.rows), FALSE, "store")
    ELSE getAllStocksFetched(fetchAllStocksFromAPI(f.w))

getAllStocksCached(w, cached) ==
    IF w.useCache /\ w.cRdOk /\ Len(cached) > 0
      THEN Ret(w, Some(cached), FALSE, "cache")
    ELSE getAllStocksFound(FindStocks(w, LAMBDA d : TRUE))

\* StockRepositoryImpl.getAllStocks
getAllStocks(w) ==
    getAllStocksCached(CacheRead(w, w.useCache), CacheGet(w.cache, AllKey, <<>>))

\* for _, ticker := range tickers { r.GetStock(ctx, ticker) }
RECURSIVE GetStocksFrom(_, _, _, _)
GetStocksNext(g, ts, i, acc) ==
    IF g.err THEN Ret(g.w, Nil, TRUE, "multi")
    ELSE GetStocksFrom(g.w, ts, i + 1, Append(acc, g.res.v))

GetStocksFrom(w, ts, i, acc) ==
    IF i > Len(ts) THEN Ret(w, Some(acc), FALSE, "multi")
    ELSE GetStocksNext(GetStock(w, ts[i]), ts, i, acc)

\* StockRepositoryImpl.GetStocks
GetStocks(w, ts) ==
    IF Len(ts) = 0 THEN getAllStocks(w) ELSE GetStocksFrom(w, ts, 1, <<>>)

\* SaveStock once ReplaceOne / InsertOne has returned r
SaveStockWritten(r, s) ==
    IF r.err THEN Ret(r.w, Nil, TRUE, "none")
    ELSE Ret(IF r.w.useCache THEN WSet(r.w, StockKey(s.ticker), s) ELSE r.w,
             Nil, FALSE, "none")

\* mutant: the record is inserted whether or not one was found
SaveStockFound_Insert(f, s) == SaveStockWritten(InsertOne(f.w, StockDoc(s)), s)

\* SaveStock once FindOne has returned f: any error is a miss
SaveStockFound(f, s) ==
    SaveStockWritten(
        IF f.st = "ok"
          THEN ReplaceOne(f.w, LAMBDA d : d.v.ticker = s.ticker, StockDoc(s))
          ELSE InsertOne(f.w, StockDoc(s)), s)

SaveStockStamped(w, s) ==
    SaveStockFound(FindOne(w, LAMBDA d : d.v.ticker = s.ticker), s)

\* StockRepositoryImpl.SaveStock (p is the *models.Stock argument)
SaveStock(w, p) ==
    IF p.nil THEN Ret(w, Nil, TRUE, "none")
    ELSE SaveStockStamped(w, [p.v EXCEPT !.updatedAt = w.now])

(***************************************************************************)
(* Detailed quotes.  A time.Time is an absolute time in hours;             *)
(* Truncate(24h) rounds it down to a multiple of 24 hours and              *)
(* Format("2006-01-02") names its day.                                     *)
(***************************************************************************)
Truncate24(h) == h - (h % 24)
FormatDay(h)  == h \div 24
\* time.Weekday: 0 is Sunday, 6 is Saturday; hour 0 is a Thursday
Weekday(h)    == ((h \div 24) + 4) % 7

QuoteKey(t, date)     == <<"stock_quote", t, FormatDay(date)>>
HistoryKey(t, s, e)   == <<"stock_history", t, FormatDay(s), FormatDay(e)>>

\* mutant: the filter matches the exact timestamp only
InDay_Exact(d, t, date) ==
    /\ d.kind = "quote"
    /\ d.v.ticker = t
    /\ d.v.date = date

\* {"ticker": t, "date": {"$gte": lo, "$lt": hi}}
InDay(d, t, date) ==
    /\ d.kind = "quote"
    /\ d.v.ticker = t
    /\ d.v.date >= Truncate24(date)
    /\ d.v.date < Truncate24(date + 24)

\* the placeholder quote GetStockQuote derives from the current Stock
QuoteFromStock(t, date, stock) ==
    [ticker |-> t,
     open   |-> 10 * (stock.price - stock.change),
     high   |-> 10 * stock.price + stock.change,
     low    |-> 10 * stock.price - stock.change,
     close  |-> 10 * stock.price,
     volume |-> stock.volume,
     date   |-> date]

\* GetStockQuote once InsertOne(quote) has returned i
GetStockQuoteInserted(i, t, date, quote) ==
    IF i.err THEN Ret(i.w, Nil, TRUE, "provider")
    ELSE Ret(IF i.w.useCache THEN WSet(i.w, QuoteKey(t, date), quote) ELSE i.w,
             Some(quote), FALSE, "provider")

GetStockQuoteInsert(w, t, date, quote) ==
    GetStockQuoteInserted(InsertOne(w, QuoteDoc(quote)), t, date, quote)

\* GetStockQuote once r.GetStock has returned g
GetStockQuoteFromStock(g, t, date) ==
    IF g.err THEN Ret(g.w, Nil, TRUE, "provider")
    ELSE GetStockQuoteInsert(g.w, t, date, QuoteFromStock(t, date, g.res.v))

GetStockQuoteFromStore(w, t, date, quote) ==
    Ret(IF w.useCache THEN WSet(w, QuoteKey(t, date), quote) ELSE w,
        Some(quote), FALSE, "store")

\* GetStockQuote once FindOne has returned f: any error is a miss
GetStockQuoteFound(f, t, date) ==
    IF f.st = "ok" THEN GetStockQuoteFromStore(f.w, t, date, AsQuote(f.doc))
    ELSE GetStockQuoteFromStock(GetStock(f.w, t), t, date)

GetStockQuoteCached(w, t, date, cached) ==
    IF w.useCache /\ w.cRdOk /\ cached.ticker # ""
      THEN Ret(w, Some(cached), FALSE, "cache")
    ELSE GetStockQuoteFound(FindOne(w, LAMBDA d : InDay(d, t, date)), t, date)

\* StockRepositoryImpl.GetStockQuote
GetStockQuote(w, t, date) ==
    GetStockQuoteCached(CacheRead(w, w.useCache), t, date,
                        CacheGet(w.cache, QuoteKey(t, date), ZeroQuote))

\* Find(filter) + cursor.All decoded as []models.StockQuote
FindQuotes(w, P(_)) ==
    LET w1 == [w EXCEPT !.nRead = @ + 1]
        F[i \in 0..Len(w.db)] ==
            IF i = 0 THEN <<>>
            ELSE IF P(w.db[i]) THEN Append(F[i - 1], AsQuote(w.db[i])) ELSE F[i - 1]
    IN  IF ~w.rdOk THEN [w |-> [w1 EXCEPT !.nFail = @ + 1], err |-> TRUE, rows |-> <<>>]
        ELSE [w |-> w1, err |-> FALSE, rows |-> F[Len(w.db)]]

\* the generation loop of GetStockHistory: one GetStockQuote per weekday,
\* a failed one is skipped
RECURSIVE HistoryLoop(_, _, _, _, _)
HistoryStep(q, t, cur, e, acc) ==
    HistoryLoop(q.w, t, cur + 24, e, IF q.err THEN acc ELSE Append(acc, q.res.v))

HistoryLoop(w, t, cur, e, acc) ==
    IF cur > e THEN [w |-> w, rows |-> acc]
    ELSE IF Weekday(cur) # 6 /\ Weekday(cur) # 0
      THEN HistoryStep(GetStockQuote(w, t, cur), t, cur, e, acc)
      ELSE HistoryLoop(w, t, cur + 24, e, acc)

\* GetStockHistory once the loop has returned h
GetStockHistoryGenerated(h, t, s, e) ==
    Ret(IF h.w.useCache /\ Len(h.rows) > 0
          THEN WSet(h.w, HistoryKey(t, s, e), h.rows) ELSE h.w,
        Some(h.rows), FALSE, "provider")

\* GetStockHistory once Find has returned f
GetStockHistoryFound(f, t, s, e) ==
    IF f.err THEN Ret(f.w, Nil, TRUE, "store")
    ELSE IF Len(f.rows) > 0
      THEN Ret(IF f.w.useCache THEN WSet(f.w, HistoryKey(t, s, e), f.rows) ELSE f.w,
               Some(f.rows), FALSE, "store")
    ELSE GetStockHistoryGenerated(HistoryLoop(f.w, t, s, e, <<>>), t, s, e)

GetStockHistoryCached(w, t, s, e, cached) ==
    IF w.useCache /\ w.cRdOk /\ Len(cached) > 0
      THEN Ret(w, Some(cached), FALSE, "cache")
    ELSE GetStockHistoryFound(
           FindQuotes(w, LAMBDA d : /\ d.kind = "quote"
                                    /\ d.v.ticker = t
                                    /\ d.v.date >= Truncate24(s)
                                    /\ d.v.date <= Truncate24(e + 24)), t, s, e)

\* StockRepositoryImpl.GetStockHistory
GetStockHistory(w, t, s, e) ==
    GetStockHistoryCached(CacheRead(w, w.useCache), t, s, e,
                          CacheGet(w.cache, HistoryKey(t, s, e), <<>>))

\* SaveStockQuote once ReplaceOne / InsertOne has returned r
SaveStockQuoteWritten(r, q) ==
    IF r.err THEN Ret(r.w, Nil, TRUE, "none")
    ELSE Ret(IF r.w.useCache THEN WSet(r.w, QuoteKey(q.ticker, q.date), q) ELSE r.w,
             Nil, FALSE, "none")

\* SaveStockQuote once FindOne has returned f
SaveStockQuoteFound(f, q) ==
    SaveStockQuoteWritten(
        IF f.st = "ok"
          THEN ReplaceOne(f.w, LAMBDA d : InDay(d, q.ticker, q.date), QuoteDoc(q))
          ELSE InsertOne(f.w, QuoteDoc(q)), q)

\* StockRepositoryImpl.SaveStockQuote (p is the *models.StockQuote argument)
SaveStockQuote(w, p) ==
    IF p.nil THEN Ret(w, Nil, TRUE, "none")
    ELSE SaveStockQuoteFound(FindOne(w, LAMBDA d : InDay(d, p.v.ticker, p.v.date)), p.v)

(***************************************************************************)
(* Text.  A Go string of the news side (URL, title, keyword, ticker, id)   *)
(* is a sequence of one-character strings.                                 *)
(***************************************************************************)
LowerLetters == <<"a", "b", "e", "g", "m", "o", "p", "r", "s", "x", "z">>
UpperLetters == <<"A", "B", "E", "G", "M", "O", "P", "R", "S", "X", "Z">>

ToUpperCh(c) ==
    IF \E i \in 1..Len(LowerLetters) : LowerLetters[i] = c
      THEN UpperLetters[CHOOSE i \in 1..Len(LowerLetters) : LowerLetters[i] = c]
      ELSE c

ToLowerCh(c) ==
    IF \E i \in 1..Len(UpperLetters) : UpperLetters[i] = c
      THEN LowerLetters[CHOOSE i \in 1..Len(UpperLetters) : UpperLetters[i] = c]
      ELSE c

\* strings.ToUpper, strings.ToLower
ToUpper(s) == [i \in 1..Len(s) |-> ToUpperCh(s[i])]
ToLower(s) == [i \in 1..Len(s) |-> ToLowerCh(s[i])]

\* strings.Contains
Contains(s, sub) ==
    \E i \in 0..Len(s) :
        i + Len(sub) <= Len(s) /\ SubSeq(s, i + 1, i + Len(sub)) = sub

\* strings.EqualFold
EqualFold(a, b) == ToUpper(a) = ToUpper(b)

\* strings.Split(s, c) for a one-character separator: never empty
Split(s, c) ==
    LET F[i \in 0..Len(s)] ==
            IF i = 0 THEN << <<>> >>
            ELSE IF s[i] = c THEN Append(F[i - 1], <<>>)
            ELSE [F[i - 1] EXCEPT ![Len(F[i - 1])] = Append(@, s[i])]
    IN  F[Len(s)]

\* fmt.Sprintf("news_%d", time.Now().Unix())
StampID(at) == <<"news_", ToString(at)>>

\* mutant: an empty last segment falls back to the timestamp id
generateNewsID_Stamp(url, at) ==
    LET parts    == Split(url, "/")
        lastPart == Split(Split(Split(parts[Len(parts)], "?")[1], "#")[1], ".")[1]
    IN  IF Len(lastPart) > 0 THEN lastPart ELSE StampID(at)

\* generateNewsID(url), called at time `at`
generateNewsID(url, at) ==
    LET parts == Split(url, "/") IN
    IF Len(parts) > 0
      THEN LET lastPart == parts[Len(parts)]
               noQuery  == Split(lastPart, "?")[1]
               noAnchor == Split(noQuery, "#")[1]
           IN  Split(noAnchor, ".")[1]
      ELSE StampID(at)

(***************************************************************************)
(* NewsAPIClient (provider client for news).                               *)
(***************************************************************************)
\* models.News
ZeroNews ==
    [id |-> <<>>, title |-> <<>>, description |-> <<>>, content |-> <<>>,
     url |-> <<>>, source |-> "", publishedAt |-> 0, createdAt |-> 0,
     tags |-> <<>>, relatedTo |-> <<>>]

\* the terms of extractTags that can occur in a text over Latin letters
keywords == << <<"M", "O", "E", "X">> >>

popularTickers ==
    << <<"S", "B", "E", "R">>, <<"G", "A", "Z", "P">>, <<"L", "K", "O", "H">>,
       <<"G", "M", "K", "N">>, <<"R", "O", "S", "N">>, <<"N", "V", "T", "K">>,
       <<"T", "A", "T", "N">>, <<"M", "T", "S", "S">>, <<"M", "G", "N", "T">>,
       <<"Y", "N", "D", "X">>, <<"F", "I", "V", "E">>, <<"P", "O", "L", "Y">>,
       <<"A", "L", "R", "S">>, <<"V", "T", "B", "R">> >>

extractTags(text) ==
    SelectSeq(keywords, LAMBDA k : Contains(ToLower(text), ToLower(k)))

extractTickers(text) ==
    SelectSeq(popularTickers, LAMBDA t : Contains(ToUpper(text), t))

\* the conversion of one article of the response into models.News
NewsFromArticle(a, at) ==
    [id          |-> generateNewsID(a.url, at),
     title       |-> a.title,
     description |-> a.description,
     content     |-> a.content,
     url         |-> a.url,
     source      |-> a.source,
     publishedAt |-> a.publishedAt,
     createdAt   |-> at,
     tags        |-> extractTags(a.title \o <<" ">> \o a.description),
     relatedTo   |-> extractTickers(a.title \o <<" ">> \o a.description)]

NewsFromArticles(as, at) == [i \in 1..Len(as) |-> NewsFromArticle(as[i], at)]

NewsKey(id)       == <<"news:">> \o id
NewsDateKey(h)    == <<"news:", "date:", FormatDay(h)>>
NewsKeywordKey(k) == <<"news:", "keyword:">> \o k
NewsTickerKey(t)  == <<"news:", "ticker:">> \o t

\* the request of GetTodayNews / GetNewsByKeyword once the cache was no help
NewsAPIRequest(w, key) ==
    LET w1 == [w EXCEPT !.nHttp = @ + 1] IN
    IF Down(w) THEN Ret(w1, Nil, TRUE, "provider")
    ELSE LET news == NewsFromArticles(w.feed, w.now)
             w2   == [w1 EXCEPT !.got = Some(news)]
             w3   == IF w.apiCache /\ Len(news) > 0 THEN ApiSet(w2, key, news) ELSE w2
         IN  Ret(w3, Some(news), FALSE, "provider")

\* NewsAPIClient.GetTodayNews
NewsAPIGetTodayNews(w) ==
    LET w0     == [w EXCEPT !.nApi = @ + 1]
        cached == CacheGet(w.cache, NewsDateKey(w.now), <<>>)
    IN  IF w.apiCache /\ w.cRdOk /\ Len(cached) > 0
          THEN Ret(CacheRead(w0, TRUE), Some(cached), FALSE, "cache")
        ELSE NewsAPIRequest(CacheRead(w0, w.apiCache), NewsDateKey(w.now))

\* NewsAPIClient.GetNewsByKeyword
NewsAPIGetNewsByKeyword(w, keyword) ==
    LET w0     == [w EXCEPT !.nApi = @ + 1]
        cached == CacheGet(w.cache, NewsKeywordKey(keyword), <<>>)
    IN  IF Len(keyword) = 0 THEN Ret(w0, Nil, TRUE, "none")
        ELSE IF w.apiCache /\ w.cRdOk /\ Len(cached) > 0
          THEN Ret(CacheRead(w0, TRUE), Some(cached), FALSE, "cache")
        ELSE NewsAPIRequest(CacheRead(w0, w.apiCache), NewsKeywordKey(keyword))

(***************************************************************************)
(* NewsRepositoryImpl.  Its collection is keyed by _id = News.ID.          *)
(***************************************************************************)
\* FindOne({"_id": id}).Decode
FindOneNews(w, id) ==
    LET w1 == [w EXCEPT !.nRead = @ + 1]
        i  == FirstMatch(w.news, LAMBDA d : d.id = id)
    IN  IF ~w.rdOk THEN [w |-> [w1 EXCEPT !.nFail = @ + 1], st |-> "fault", doc |-> NIL]
        ELSE IF i = 0 THEN [w |-> w1, st |-> "nodoc", doc |-> NIL]
        ELSE [w |-> w1, st |-> "ok", doc |-> w.news[i]]

\* Find(filter) + cursor.All
FindNews(w, P(_)) ==
    LET w1 == [w EXCEPT !.nRead = @ + 1] IN
    IF ~w.rdOk THEN [w |-> [w1 EXCEPT !.nFail = @ + 1], err |-> TRUE, rows |-> <<>>]
    ELSE [w |-> w1, err |-> FALSE, rows |-> SelectSeq(w.news, P)]

\* InsertOne: a second document with the same _id is a duplicate-key error
InsertOneNews(w, n) ==
    IF WriteFails(w) THEN [w |-> [w EXCEPT !.nFail = @ + 1], err |-> TRUE]
    ELSE IF \E i \in 1..Len(w.news) : w.news[i].id = n.id THEN [w |-> w, err |-> TRUE]
    ELSE [w |-> [w EXCEPT !.news = Append(@, n), !.nWrite = @ + 1], err |-> FALSE]

\* ReplaceOne({"_id": id}, n)
ReplaceOneNews(w, id, n) ==
    LET i == FirstMatch(w.news, LAMBDA d : d.id = id)
    IN  IF WriteFails(w) THEN [w |-> [w EXCEPT !.nFail = @ + 1], err |-> TRUE]
        ELSE IF i = 0 THEN [w |-> w, err |-> FALSE]
        ELSE [w |-> [w EXCEPT !.news = [@ EXCEPT ![i] = n], !.nWrite = @ + 1],
              err |-> FALSE]

\* {"$regex": k, "$options": "i"} for a k of letters and digits
RegexI(field, k) == Contains(ToLower(field), ToLower(k))

InSeq(x, q) == \E i \in 1..Len(q) : q[i] = x

\* SaveNews once ReplaceOne / InsertOne has returned r
SaveNewsWritten(r, n) ==
    IF r.err THEN Ret(r.w, Nil, TRUE, "none")
    ELSE Ret(IF r.w.useCache THEN WSet(r.w, NewsKey(n.id), n) ELSE r.w,
             Nil, FALSE, "none")

\* SaveNews once FindOne has returned f: any error is a miss
SaveNewsFound(f, n) ==
    SaveNewsWritten(IF f.st = "ok" THEN ReplaceOneNews(f.w, n.id, n)
                                   ELSE InsertOneNews(f.w, n), n)

\* NewsRepositoryImpl.SaveNews (p is the *models.News argument)
SaveNews(w, p) ==
    IF p.nil THEN Ret(w, Nil, TRUE, "none")
    ELSE SaveNewsFound(FindOneNews(w, p.v.id), p.v)

\* for i := range news { r.SaveNews(ctx, &news[i]) }: the result is dropped
RECURSIVE SaveEach(_, _, _)
SaveEach(w, news, i) ==
    IF i > Len(news) THEN w
    ELSE SaveEach(SaveNews(w, Some(news[i])).w, news, i + 1)

\* the fetch helpers once the news were saved, leaving world w
fetchCached(w, key, news) ==
    Ret(IF w.useCache /\ Len(news) > 0 THEN WSet(w, key, news) ELSE w,
        Some(news), FALSE, "provider")

\* the fetch helpers once the provider client has returned a
fetchReturned(a, key) ==
    IF a.err THEN Ret(a.w, Nil, TRUE, "provider")
    ELSE fetchCached(SaveEach(a.w, a.res.v, 1), key, a.res.v)

\* NewsRepositoryImpl.fetchTodayNewsFromAPI
fetchTodayNewsFromAPI(w) ==
    fetchReturned(NewsAPIGetTodayNews(w), NewsDateKey(w.now))

\* NewsRepositoryImpl.fetchNewsByKeywordFromAPI
fetchNewsByKeywordFromAPI(w, keyword) ==
    fetchReturned(NewsAPIGetNewsByKeyword(w, keyword), NewsKeywordKey(keyword))

\* GetNews once FindOne has returned f
GetNewsFound(f, id) ==
    IF f.st = "ok"
      THEN Ret(IF f.w.useCache THEN WSet(f.w, NewsKey(id), f.doc) ELSE f.w,
               Some(f.doc), FALSE, "store")
      ELSE Ret(f.w, Nil, TRUE, "store")

GetNewsCached(w, id, cached) ==
    IF w.useCache /\ w.cRdOk /\ cached.id # <<>>
      THEN Ret(w, Some(cached), FALSE, "cache")
    ELSE GetNewsFound(FindOneNews(w, id), id)

\* NewsRepositoryImpl.GetNews
GetNews(w, id) ==
    GetNewsCached(CacheRead(w, w.useCache), id,
                  CacheGet(w.cache, NewsKey(id), ZeroNews))

\* the list lookups once Find has returned f
NewsLookupFound(f, key, fetch(_)) ==
    IF f.err THEN Ret(f.w, Nil, TRUE, "store")
    ELSE IF Len(f.rows) > 0
      THEN Ret(IF f.w.useCache THEN WSet(f.w, key, f.rows) ELSE f.w,
               Some(f.rows), FALSE, "store")
    ELSE fetch(f.w)

NewsLookupCached(w, key, cached, P(_), fetch(_)) ==
    IF w.useCache /\ w.cRdOk /\ Len(cached) > 0
      THEN Ret(w, Some(cached), FALSE, "cache")
    ELSE NewsLookupFound(FindNews(w, P), key, fetch)

\* the part the three list lookups share: cache, then store, then `fetch`
NewsLookup(w, key, P(_), fetch(_)) ==
    NewsLookupCached(CacheRead(w, w.useCache), key, CacheGet(w.cache, key, <<>>),
                     P, fetch)

\* NewsRepositoryImpl.GetNewsByDate
GetNewsByDate(w, date) ==
    LET startDate == Truncate24(date)
        endDate   == startDate + 24
    IN  NewsLookup(w, NewsDateKey(startDate),
                   LAMBDA d : d.publishedAt >= startDate /\ d.publishedAt < endDate,
                   LAMBDA x : IF FormatDay(startDate) = FormatDay(x.now)
                                THEN fetchTodayNewsFromAPI(x)
                                ELSE Ret(x, Some(<<>>), FALSE, "none"))

\* NewsRepositoryImpl.GetNewsForToday
GetNewsForToday(w) == GetNewsByDate(w, w.now)

\* NewsRepositoryImpl.GetNewsByKeyword
GetNewsByKeyword(w, keyword) ==
    IF Len(keyword) = 0 THEN Ret(w, Nil, TRUE, "none")
    ELSE NewsLookup(w, NewsKeywordKey(keyword),
                    LAMBDA d : \/ RegexI(d.title, keyword)
                               \/ RegexI(d.description, keyword)
                               \/ RegexI(d.content, keyword)
                               \/ InSeq(keyword, d.tags),
                    LAMBDA x : fetchNewsByKeywordFromAPI(x, keyword))

\* NewsRepositoryImpl.GetNewsByTicker
GetNewsByTicker(w, ticker) ==
    IF Len(ticker) = 0 THEN Ret(w, Nil, TRUE, "none")
    ELSE NewsLookup(w, NewsTickerKey(ticker),
                    LAMBDA d : \/ InSeq(ticker, d.relatedTo)
                               \/ RegexI(d.title, ticker)
                               \/ RegexI(d.description, ticker)
                               \/ RegexI(d.content, ticker),
                    LAMBDA x : fetchNewsByKeywordFromAPI(x, ticker))

(***************************************************************************)
(* StockServiceImpl (domain service for quotes).  The zero time.Time is    *)
(* written Nil, any other time Some(hour).  A service call answers with    *)
(* the repository's world, its result and error, and the list it ranked or *)
(* filtered (the universe).                                                *)
(***************************************************************************)
DefaultLimit == 10

Answer(w, res, err, src, universe) ==
    [w |-> w, res |-> res, err |-> err, src |-> src, universe |-> universe]

\* a service call that is a plain pass-through of the repository's answer r
Passed(r) == Answer(r.w, r.res, r.err, r.src, <<>>)

\* the error a failed validation returns before the repository is called
Rejected(w) == Answer(w, Nil, TRUE, "none", <<>>)

\* mutant: the ticker goes to the repository unchecked
GetStockInfo_Unchecked(w, ticker) == Passed(GetStock(w, ticker))

\* StockServiceImpl.GetStockInfo
GetStockInfo(w, ticker) ==
    IF ticker = "" THEN Rejected(w) ELSE Passed(GetStock(w, ticker))

\* StockServiceImpl.GetMultipleStocks
GetMultipleStocks(w, tickers) ==
    IF Len(tickers) = 0 THEN Rejected(w) ELSE Passed(GetStocks(w, tickers))

\* StockServiceImpl.GetStockQuote
StockServiceGetStockQuote(w, ticker, date) ==
    IF ticker = "" THEN Rejected(w)
    ELSE Passed(GetStockQuote(w, ticker, IF date.nil THEN w.now ELSE date.v))

\* time.Now().AddDate(0, -1, 0): the clock stands in January 1970, and the
\* month before it has 31 days
MonthBefore(h) == h - 24 * 31

\* StockServiceImpl.GetStockHistoricalData
GetStockHistoricalData(w, ticker, startDate, endDate) ==
    IF ticker = "" THEN Rejected(w)
    ELSE Passed(GetStockHistory(w, ticker,
                    IF startDate.nil THEN MonthBefore(w.now) ELSE startDate.v,
                    IF endDate.nil THEN w.now ELSE endDate.v))

\* mutant: equal keys count as out of order
OutOfOrder_Loose(mode, a, b) ==
    CASE mode = "gainers" -> a.changePerc <= b.changePerc
      [] mode = "losers"  -> a.changePerc >= b.changePerc
      [] mode = "volume"  -> a.volume <= b.volume
      [] mode = "recent"  -> a.publishedAt <= b.publishedAt

\* the comparison of each bubble sort: is a, standing before b, out of order
OutOfOrder(mode, a, b) ==
    CASE mode = "gainers" -> a.changePerc < b.changePerc
      [] mode = "losers"  -> a.changePerc > b.changePerc
      [] mode = "volume"  -> a.volume < b.volume
      [] mode = "recent"  -> a.publishedAt < b.publishedAt

Swap(s, j) == [s EXCEPT ![j] = s[j + 1], ![j + 1] = s[j]]

\* for j := 0; j < n-i-1; j++ { if out of order { swap } }
RECURSIVE BubblePass(_, _, _, _)
BubblePass(s, mode, j, hi) ==
    IF j > hi THEN s
    ELSE BubblePass(IF OutOfOrder(mode, s[j], s[j + 1]) THEN Swap(s, j) ELSE s,
                    mode, j + 1, hi)

\* for i := 0; i < n-1; i++ { ... }
RECURSIVE BubbleSort(_, _, _)
BubbleSort(s, mode, i) ==
    IF i >= Len(s) - 1 THEN s
    ELSE BubbleSort(BubblePass(s, mode, 1, Len(s) - i - 1), mode, i + 1)

\* stocks[:limit] after limit was clamped to len(stocks)
Top(s, limit) == SubSeq(s, 1, IF limit > Len(s) THEN Len(s) ELSE limit)

\* mutant: the InMemoryCache hands out the slice it keeps, so a list read
\* from the cache shares its elements with the entry too
SortedInPlace_Shared(g, key, sorted) ==
    IF g.w.inMemory /\ g.w.useCache /\ g.src \in {"cache", "store", "provider"}
          /\ key \in DOMAIN g.w.cache
      THEN [g.w EXCEPT !.cache = CacheSet(@, key, sorted)]
      ELSE g.w

\* The InMemoryCache keeps the slice it was handed, so a slice that the
\* repository has just cached under `key` and returned shares its elements
\* with the cache entry: sorting it in place reorders the entry too.  The
\* RedisCache keeps a serialised copy.
SortedInPlace(g, key, sorted) ==
    IF g.w.inMemory /\ g.w.useCache /\ g.src \in {"store", "provider"}
          /\ key \in DOMAIN g.w.cache
      THEN [g.w EXCEPT !.cache = CacheSet(@, key, sorted)]
      ELSE g.w

\* the ranking calls once the list was sorted
Ranked(g, w, sorted, limit) ==
    Answer(w, Some(Top(sorted, limit)), FALSE, g.src, g.res.v)

\* the ranking calls once s.stockRepo.GetStocks(ctx, []string{}) has returned g
RankReturned(g, sorted, limit) ==
    IF g.err THEN Answer(g.w, Nil, TRUE, g.src, <<>>)
    ELSE Ranked(g, SortedInPlace(g, AllKey, sorted), sorted, limit)

RankFetched(g, mode, limit) ==
    RankReturned(g, IF g.err THEN <<>> ELSE BubbleSort(g.res.v, mode, 0), limit)

\* mutant: the requested limit is used as it is
Rank_NoDefault(w, mode, limit) ==
    RankFetched(GetStocks(w, <<>>), mode, IF limit < 0 THEN 0 ELSE limit)

\* the body the three ranking calls share
Rank(w, mode, limit) ==
    RankFetched(GetStocks(w, <<>>), mode, IF limit <= 0 THEN DefaultLimit ELSE limit)

\* mutant: the list is returned in fetch order
RankUnsorted(g, limit) == RankReturned(g, IF g.err THEN <<>> ELSE g.res.v, limit)

GetMOEXTopGainers_Unsorted(w, limit) ==
    RankUnsorted(GetStocks(w, <<>>), IF limit <= 0 THEN DefaultLimit ELSE limit)

\* StockServiceImpl.GetMOEXTopGainers
GetMOEXTopGainers(w, limit) == Rank(w, "gainers", limit)

\* mutant: the comparison of the gainers
GetMOEXTopLosers_Descending(w, limit) == Rank(w, "gainers", limit)

\* StockServiceImpl.GetMOEXTopLosers
GetMOEXTopLosers(w, limit) == Rank(w, "losers", limit)

\* StockServiceImpl.GetMOEXTopVolume
GetMOEXTopVolume(w, limit) == Rank(w, "volume", limit)

\* containsIgnoreCase(s, substr): returns true whatever it is given
containsIgnoreCase(s, substr) == TRUE

\* SearchStocks once s.stockRepo.GetStocks(ctx, []string{}) has returned g
SearchStocksFetched(g, query) ==
    IF g.err THEN Answer(g.w, Nil, TRUE, g.src, <<>>)
    ELSE Answer(g.w,
                Some(SelectSeq(g.res.v,
                       LAMBDA stock : \/ containsIgnoreCase(stock.ticker, query)
                                      \/ containsIgnoreCase(stock.name, query))),
                FALSE, g.src, g.res.v)

\* StockServiceImpl.SearchStocks
SearchStocks(w, query) ==
    IF query = <<>> THEN Rejected(w) ELSE SearchStocksFetched(GetStocks(w, <<>>), query)

(***************************************************************************)
(* NewsServiceImpl (domain service for news).                              *)
(***************************************************************************)
\* NewsServiceImpl.GetNewsById
GetNewsById(w, id) ==
    IF id = <<>> THEN Rejected(w) ELSE Passed(GetNews(w, id))

\* NewsServiceImpl.SearchNewsByKeyword
SearchNewsByKeyword(w, keyword) ==
    IF keyword = <<>> THEN Rejected(w) ELSE Passed(GetNewsByKeyword(w, keyword))

\* NewsServiceImpl.GetNewsForTicker
GetNewsForTicker(w, ticker) ==
    IF ticker = <<>> THEN Rejected(w) ELSE Passed(GetNewsByTicker(w, ticker))

\* the index of the last element of news whose id is id
LastWithID(news, id) ==
    CHOOSE i \in 1..Len(news) :
        news[i].id = id /\ \A j \in (i + 1)..Len(news) : news[j].id # id

\* SaveNews(&news[i]) hands the InMemoryCache a pointer into the slice: the
\* entry of an id is the element at the index that was saved last under it,
\* whatever the sort has moved there
PointersInPlace(w, news, sorted) ==
    [w EXCEPT !.cache =
        [k \in DOMAIN w.cache |->
            IF \E i \in 1..Len(news) :
                  k = NewsKey(news[i].id) /\ w.cache[k] = news[LastWithID(news, news[i].id)]
              THEN sorted[LastWithID(news,
                       news[CHOOSE i \in 1..Len(news) : k = NewsKey(news[i].id)].id)]
              ELSE w.cache[k]]]

\* what the in-place sort of the returned slice does to the cache
NewsSortedInPlace(g, w, sorted) ==
    IF g.w.inMemory /\ g.w.useCache /\ g.src = "provider"
      THEN PointersInPlace(w, g.res.v, sorted)
      ELSE w

\* GetRecentNews once the list was sorted
RecentSorted(g, sorted, limit) ==
    Answer(NewsSortedInPlace(g, SortedInPlace(g, NewsDateKey(Truncate24(g.w.now)), sorted),
                             sorted),
           Some(Top(sorted, limit)), FALSE, g.src, g.res.v)

\* GetRecentNews once s.newsRepo.GetNewsForToday has returned g
RecentFetched(g, limit) ==
    IF g.err THEN Answer(g.w, Nil, TRUE, g.src, <<>>)
    ELSE RecentSorted(g, BubbleSort(g.res.v, "recent", 0), limit)

\* NewsServiceImpl.GetRecentNews
GetRecentNews(w, limit) ==
    RecentFetched(GetNewsForToday(w), IF limit <= 0 THEN DefaultLimit ELSE limit)

\* containsTickerInNews
containsTickerInNews(news, ticker) ==
    \/ InSeq(ticker, news.relatedTo)
    \/ containsIgnoreCase(news.title, ticker)
    \/ containsIgnoreCase(news.description, ticker)
    \/ containsIgnoreCase(news.content, ticker)

\* the filter loop of GetNewsForMultipleTickers over allNews[1..i]: the
\* result so far and the ids seen so far; with dedup off the ids are not
\* consulted
MultiFilter(allNews, tickers, dedup) ==
    LET F[i \in 0..Len(allNews)] ==
            IF i = 0 THEN [result |-> <<>>, seen |-> {}]
            ELSE IF /\ \E k \in 1..Len(tickers) :
                         containsTickerInNews(allNews[i], tickers[k])
                    /\ (dedup => allNews[i].id \notin F[i - 1].seen)
              THEN [result |-> Append(F[i - 1].result, allNews[i]),
                    seen   |-> F[i - 1].seen \cup {allNews[i].id}]
              ELSE F[i - 1]
    IN  F[Len(allNews)].result

\* GetNewsForMultipleTickers once s.newsRepo.GetNewsForToday has returned g
MultiFetched(g, tickers, dedup) ==
    IF g.err THEN Answer(g.w, Nil, TRUE, g.src, <<>>)
    ELSE Answer(g.w, Some(MultiFilter(g.res.v, tickers, dedup)), FALSE, g.src, g.res.v)

\* mutant: the ids already returned are not consulted
GetNewsForMultipleTickers_NoSeen(w, tickers) ==
    IF Len(tickers) = 0 THEN Rejected(w)
    ELSE MultiFetched(GetNewsForToday(w), tickers, FALSE)

\* NewsServiceImpl.GetNewsForMultipleTickers
GetNewsForMultipleTickers(w, tickers) ==
    IF Len(tickers) = 0 THEN Rejected(w)
    ELSE MultiFetched(GetNewsForToday(w), tickers, TRUE)

(***************************************************************************)
(* The two cache backends (pkg/cache) on their own.  A key and a pattern   *)
(* are strings, written as sequences of characters.  The RedisCache keeps  *)
(* the JSON encoding of a value, the InMemoryCache the value it was        *)
(* handed, which it encodes when it is read.  A Go value is a models.Stock *)
(* or a slice, a slice being Nil or Some(<<...>>).                         *)
(***************************************************************************)
IsSlice(x) == "nil" \in DOMAIN x

\* json.Marshal: a struct is an object, a nil slice is null, any other
\* slice an array
Marshal(v) ==
    IF ~IsSlice(v) THEN [kind |-> "object", v |-> v]
    ELSE IF v.nil THEN [kind |-> "null", v |-> <<>>]
    ELSE [kind |-> "array", v |-> v.v]

\* json.Unmarshal(data, dest): null leaves dest as it is, an object fills a
\* struct, an array fills a slice, anything else is an UnmarshalTypeError
Unmarshal(j, dest) ==
    CASE j.kind = "null" -> [err |-> "nil", dest |-> dest]
      [] j.kind = "object" /\ ~IsSlice(dest) -> [err |-> "nil", dest |-> j.v]
      [] j.kind = "array" /\ IsSlice(dest) -> [err |-> "nil", dest |-> Some(j.v)]
      [] OTHER -> [err |-> "decode", dest |-> dest]

\* the glob match of the KEYS command, for patterns of literal characters,
\* `*` and `?`
RECURSIVE GlobMatch(_, _)
GlobMatch(p, s) ==
    IF p = <<>> THEN s = <<>>
    ELSE IF Head(p) = "*"
      THEN GlobMatch(Tail(p), s) \/ (s # <<>> /\ GlobMatch(p, Tail(s)))
    ELSE /\ s # <<>>
         /\ (Head(p) = "?" \/ Head(p) = Head(s))
         /\ GlobMatch(Tail(p), Tail(s))

\* len(k) >= len(pattern) && k[:len(pattern)] == pattern
HasPrefix(k, pattern) ==
    Len(k) >= Len(pattern) /\ SubSeq(k, 1, Len(pattern)) = pattern

Without(c, gone) == [x \in (DOMAIN c) \ gone |-> c[x]]

\* RedisCache.Get; `ok` is whether the server can be reached
RedisGet(c, key, dest, ok) ==
    IF ~ok THEN [err |-> "backend", dest |-> dest]
    ELSE IF key \notin DOMAIN c THEN [err |-> "nil", dest |-> dest]
    ELSE Unmarshal(c[key], dest)

\* RedisCache.Set
RedisSet(c, key, value, ok) ==
    IF ~ok THEN [c |-> c, err |-> "backend"]
    ELSE [c |-> CacheSet(c, key, Marshal(value)), err |-> "nil"]

\* RedisCache.Delete
RedisDelete(c, key, ok) ==
    IF ~ok THEN [c |-> c, err |-> "backend"]
    ELSE [c |-> CacheDelete(c, key), err |-> "nil"]

\* RedisCache.Exists
RedisExists(c, key, ok) ==
    IF ~ok THEN [found |-> FALSE, err |-> "backend"]
    ELSE [found |-> key \in DOMAIN c, err |-> "nil"]

\* RedisCache.Invalidate
RedisInvalidate(c, pattern, ok) ==
    IF ~ok THEN [c |-> c, err |-> "backend"]
    ELSE [c |-> Without(c, {k \in DOMAIN c : GlobMatch(pattern, k)}), err |-> "nil"]

\* InMemoryCache.Get
InMemoryGet(c, key, dest) ==
    IF key \notin DOMAIN c THEN [err |-> "nil", dest |-> dest]
    ELSE Unmarshal(Marshal(c[key]), dest)

\* InMemoryCache.Set
InMemorySet(c, key, value) == [c |-> CacheSet(c, key, value), err |-> "nil"]

\* InMemoryCache.Delete
InMemoryDelete(c, key) == [c |-> CacheDelete(c, key), err |-> "nil"]

\* InMemoryCache.Exists
InMemoryExists(c, key) == [found |-> key \in DOMAIN c, err |-> "nil"]

\* InMemoryCache.Invalidate
InMemoryInvalidate(c, pattern) ==
    [c |-> Without(c, {k \in DOMAIN c : HasPrefix(k, pattern)}), err |-> "nil"]

(***************************************************************************)
(* State machine.  Each repository call is one action; the world it runs   *)
(* in is built from the state and from the call's environment inputs:      *)
(* whether the store fails, whether the upstream answers, what it serves.  *)
(***************************************************************************)
Faults == {"none", "read", "write"}

\* fault-free environments, and environments with a store fault
Envs      == [fault : {"none"}, up : BOOLEAN, mkt : 1..MaxMarket, feed : {<<>>}]
SteadyEnvs == [fault : {"none"}, up : BOOLEAN, mkt : {1}, feed : {<<>>}]
FaultEnvs == [fault : Faults \ {"none"}, up : BOOLEAN, mkt : {1}, feed : {<<>>}]

World(e) ==
    [db |-> db, news |-> newsDb, cache |-> cache,
     useCache |-> cfg.useCache, apiCache |-> cfg.apiCache,
     inMemory |-> cfg.inMemory,
     up |-> e.up, mkt |-> e.mkt, feed |-> e.feed, now |-> now,
     rdOk |-> e.fault # "read", wrOk |-> e.fault # "write",
     cRdOk |-> e.fault # "cacheRead", cWrOk |-> e.fault # "cacheWrite",
     nRead |-> 0, nWrite |-> 0, nApi |-> 0, nHttp |-> 0, nFail |-> 0,
     nCache |-> 0, nApiSet |-> 0, got |-> Nil,
     upFor |-> Nil, wrFor |-> Nil]

NoCall ==
    [op |-> "none", ticker |-> "", key |-> <<"none">>, res |-> Nil,
     err |-> FALSE, src |-> "none", faulted |-> FALSE, fault |-> "none",
     up |-> TRUE,
     nRead |-> 0, nWrite |-> 0, nApi |-> 0, nHttp |-> 0, nApiSet |-> 0,
     got |-> Nil, hadKey |-> FALSE, hadDoc |-> FALSE, keyAfter |-> Nil,
     dbSame |-> TRUE, keySame |-> TRUE, prevCold |-> FALSE, prevRes |-> Nil]

\* the repository call op(ticker), whose first cache read is of `key` and
\* whose store query had a match iff hadDoc, returned r in environment e
Returned(op, ticker, key, hadDoc, r, e) ==
    \* an environment input that the call never consults is left at its default
    /\ e.fault # "none" => r.w.nFail > 0 /\ faults < MaxFaults
    /\ ~e.up => e.mkt = 1 /\ e.feed = <<>>
    /\ e.mkt # 1 => r.w.nHttp > 0
    /\ e.feed # <<>> => r.w.nHttp > 0
    /\ db' = r.w.db
    /\ newsDb' = r.w.news
    /\ cache' = r.w.cache
    /\ faults' = IF r.w.nFail > 0 THEN faults + 1 ELSE faults
    /\ LET cold == /\ last.op = "GetStock" /\ op = "GetStock"
                   /\ last.ticker = ticker
                   /\ last.src = "provider" /\ ~last.err
       IN last' =
           [op       |-> op,
            ticker   |-> ticker,
            key      |-> key,
            res      |-> r.res,
            err      |-> r.err,
            src      |-> r.src,
            faulted  |-> r.w.nFail > 0,
            fault    |-> e.fault,
            up       |-> e.up,
            nRead    |-> r.w.nRead,
            nWrite   |-> r.w.nWrite,
            nApi     |-> r.w.nApi,
            nHttp    |-> r.w.nHttp,
            nApiSet  |-> r.w.nApiSet,
            got      |-> r.w.got,
            hadKey   |-> key \in DOMAIN cache,
            hadDoc   |-> hadDoc,
            keyAfter |-> IF key \in DOMAIN r.w.cache THEN Some(r.w.cache[key]) ELSE Nil,
            dbSame   |-> r.w.db = db /\ r.w.news = newsDb,
            keySame  |-> /\ (key \in DOMAIN cache) = (key \in DOMAIN r.w.cache)
                         /\ key \in DOMAIN cache => r.w.cache[key] = cache[key],
            prevCold |-> cold,
            prevRes  |-> IF cold THEN last.res ELSE Nil]
    /\ UNCHANGED <<cfg, now>>

Commit(op, ticker, key, hadDoc, r, e) ==
    /\ Returned(op, ticker, key, hadDoc, r, e)
    /\ UNCHANGED fn

LookupTickers == {"SBER", ""}
TickerLists   == {<<>>, <<"SBER", "">>}
SaveInputs    ==
    {Nil} \cup
    {Some([ticker |-> t, name |-> "saved", price |-> 50, change |-> -5,
           changePerc |-> -9, volume |-> 7, updatedAt |-> 0]) : t \in LookupTickers}

HasTicker(t) == \E i \in 1..Len(db) : db[i].v.ticker = t

DoGetStock(E) ==
    \E t \in LookupTickers, e \in E :
        Commit("GetStock", t, StockKey(t), HasTicker(t), GetStock(World(e), t), e)

DoGetStocks(E) ==
    \E ts \in TickerLists, e \in E :
        Commit(IF Len(ts) = 0 THEN "getAllStocks" ELSE "GetStocks", "",
               IF Len(ts) = 0 THEN AllKey ELSE StockKey(ts[1]),
               IF Len(ts) = 0 THEN Len(db) > 0 ELSE HasTicker(ts[1]),
               GetStocks(World(e), ts), e)

DoSaveStock(E) ==
    \E p \in SaveInputs, e \in E :
        Commit("SaveStock", IF p.nil THEN "" ELSE p.v.ticker,
               StockKey(IF p.nil THEN "" ELSE p.v.ticker),
               HasTicker(IF p.nil THEN "" ELSE p.v.ticker),
               SaveStock(World(e), p), e)

CallGetStock  == DoGetStock(Envs)
CallGetStocks == DoGetStocks(Envs)
CallSaveStock == DoSaveStock(Envs)

FaultyGetStock  == DoGetStock(FaultEnvs)
FaultyGetStocks == DoGetStocks(FaultEnvs)
FaultySaveStock == DoSaveStock(FaultEnvs)

\* a cache entry reaches its TTL
Expire ==
    \E k \in DOMAIN cache :
        /\ cache' = CacheDelete(cache, k)
        /\ UNCHANGED <<db, newsDb, cfg, now, faults, last, fn>>

\* fn is the record of the provider's answers: the URLs it has served, and
\* those it has served in more than one fetch
NoFetch == [seen |-> {}, twice |-> {}]

\* main.go builds both repositories with useCache = true; the API clients'
\* own caching is off unless configured, and the cache is a RedisCache when
\* a Redis URI is configured
Init ==
    /\ db = <<>>
    /\ newsDb = <<>>
    /\ cache = EmptyCache
    /\ cfg = [useCache |-> TRUE, apiCache |-> FALSE, inMemory |-> FALSE]
    /\ now = 0
    /\ faults = 0
    /\ last = NoCall
    /\ fn = NoFetch

Next ==
    \/ CallGetStock
    \/ CallGetStocks
    \/ CallSaveStock
    \/ Expire

Spec == Init /\ [][Next]_vars

\* the same calls on a steady market, any of which may meet a failing store
SteadyGetStock  == DoGetStock(SteadyEnvs)
SteadyGetStocks == DoGetStocks(SteadyEnvs)
SteadySaveStock == DoSaveStock(SteadyEnvs)

NextFault ==
    \/ SteadyGetStock
    \/ SteadyGetStocks
    \/ SteadySaveStock
    \/ Expire
    \/ FaultyGetStock
    \/ FaultyGetStocks
    \/ FaultySaveStock

SpecFault == Init /\ [][NextFault]_vars

(***************************************************************************)
(* The detailed-quote calls.  Hour 0 is a Thursday, so day 2 is a Saturday.*)
(***************************************************************************)
QuoteTickers == {"SBER"}
QuoteDates   == {0, 13, 24}
HistoryRanges == {<<0, 24>>, <<48, 48>>}
SaveQuoteInputs ==
    {Nil} \cup
    {Some([ticker |-> "SBER", open |-> 700, high |-> 720, low |-> 690,
           close |-> 710, volume |-> 5, date |-> d]) : d \in {1, 24}} \cup
    {Some([ticker |-> "GAZP", open |-> 300, high |-> 300, low |-> 300,
           close |-> 300, volume |-> 0, date |-> 13])}

HasQuote(t, date) == \E i \in 1..Len(db) : InDay(db[i], t, date)

CallGetStockQuote ==
    \E t \in QuoteTickers, d \in QuoteDates, e \in SteadyEnvs :
        Commit("GetStockQuote", t, QuoteKey(t, d), HasQuote(t, d),
               GetStockQuote(World(e), t, d), e)

CallGetStockHistory ==
    \E t \in QuoteTickers, r \in HistoryRanges, e \in SteadyEnvs :
        Commit("GetStockHistory", t, HistoryKey(t, r[1], r[2]),
               \E i \in 1..Len(db) : /\ db[i].kind = "quote"
                                      /\ db[i].v.ticker = t
                                      /\ db[i].v.date >= Truncate24(r[1])
                                      /\ db[i].v.date <= Truncate24(r[2] + 24),
               GetStockHistory(World(e), t, r[1], r[2]), e)

CallSaveStockQuote ==
    \E p \in SaveQuoteInputs, e \in SteadyEnvs :
        Commit("SaveStockQuote", IF p.nil THEN "" ELSE p.v.ticker,
               IF p.nil THEN <<"none">> ELSE QuoteKey(p.v.ticker, p.v.date),
               ~p.nil /\ HasQuote(p.v.ticker, p.v.date),
               SaveStockQuote(World(e), p), e)

NextQuote ==
    \/ CallGetStockQuote
    \/ CallGetStockHistory
    \/ CallSaveStockQuote
    \/ Expire

SpecQuote == Init /\ [][NextQuote]_vars

(***************************************************************************)
(* The news calls.  The provider answers a request with any of Feeds; the  *)
(* clock stands at hour 0, so articles 1 and 2 are today's.                *)
(***************************************************************************)
ArticleAX ==
    [url |-> <<"a", "/", "x">>, title |-> <<"S", "b", "e", "r">>,
     description |-> <<>>, content |-> <<>>, source |-> "rbc", publishedAt |-> 1]
ArticleBX ==
    [url |-> <<"b", "/", "x">>, title |-> <<"g", "a", "z", "p">>,
     description |-> <<>>, content |-> <<>>, source |-> "tass", publishedAt |-> 2]
ArticleC ==
    [url |-> <<"c", "/">>, title |-> <<"M", "O", "E", "X">>,
     description |-> <<>>, content |-> <<>>, source |-> "rbc", publishedAt |-> 25]

Feeds    == {<<>>, <<ArticleAX, ArticleBX>>, <<ArticleC>>}
NewsEnvs == [fault : {"none"}, up : BOOLEAN, mkt : {1}, feed : Feeds]

NewsIDs      == {<<"x">>, <<>>}
NewsDates    == {0, 24}
NewsKeywords == {<<>>, <<"s", "b", "e", "r">>}
NewsTickers  == {<<"S", "B", "E", "R">>}
SaveNewsInputs ==
    {Nil, Some([ZeroNews EXCEPT !.id = <<"x">>, !.url = <<"z", "/", "x">>,
                                !.title = <<"s", "b", "e", "r">>, !.publishedAt = 3])}

UrlsOf(res) == IF res.nil THEN {} ELSE {res.v[i].url : i \in 1..Len(res.v)}

\* a news call returned; with `track` the provider's answer is recorded
CommitNews(op, arg, key, hadDoc, r, e, track) ==
    /\ Returned(op, arg, key, hadDoc, r, e)
    /\ fn' = IF track
               THEN [seen  |-> fn.seen \cup UrlsOf(r.w.got),
                     twice |-> fn.twice \cup (fn.seen \cap UrlsOf(r.w.got))]
               ELSE fn

CallGetNews ==
    \E id \in NewsIDs, e \in NewsEnvs :
        CommitNews("GetNews", id, NewsKey(id),
                   \E i \in 1..Len(newsDb) : newsDb[i].id = id,
                   GetNews(World(e), id), e, FALSE)

DoGetNewsByDate(track) ==
    \E d \in NewsDates, e \in NewsEnvs :
        CommitNews("GetNewsByDate", <<>>, NewsDateKey(Truncate24(d)),
                   \E i \in 1..Len(newsDb) : FormatDay(newsDb[i].publishedAt) = FormatDay(d),
                   GetNewsByDate(World(e), d), e, track)

DoGetNewsByKeyword(track) ==
    \E k \in NewsKeywords, e \in NewsEnvs :
        CommitNews("GetNewsByKeyword", k, NewsKeywordKey(k),
                   \E i \in 1..Len(newsDb) :
                       \/ RegexI(newsDb[i].title, k)
                       \/ RegexI(newsDb[i].description, k)
                       \/ RegexI(newsDb[i].content, k)
                       \/ InSeq(k, newsDb[i].tags),
                   GetNewsByKeyword(World(e), k), e, track)

CallGetNewsByTicker ==
    \E t \in NewsTickers, e \in NewsEnvs :
        CommitNews("GetNewsByTicker", t, NewsTickerKey(t),
                   \E i \in 1..Len(newsDb) :
                       \/ InSeq(t, newsDb[i].relatedTo)
                       \/ RegexI(newsDb[i].title, t)
                       \/ RegexI(newsDb[i].description, t)
                       \/ RegexI(newsDb[i].content, t),
                   GetNewsByTicker(World(e), t), e, FALSE)

CallSaveNews ==
    \E p \in SaveNewsInputs, e \in NewsEnvs :
        CommitNews("SaveNews", IF p.nil THEN <<>> ELSE p.v.id,
                   NewsKey(IF p.nil THEN <<>> ELSE p.v.id),
                   ~p.nil /\ \E i \in 1..Len(newsDb) : newsDb[i].id = p.v.id,
                   SaveNews(World(e), p), e, FALSE)

CallGetNewsByDate    == DoGetNewsByDate(FALSE)
CallGetNewsByKeyword == DoGetNewsByKeyword(FALSE)

NextNews ==
    \/ CallGetNews
    \/ CallGetNewsByDate
    \/ CallGetNewsByKeyword
    \/ CallGetNewsByTicker
    \/ CallSaveNews
    \/ Expire

SpecNews == Init /\ [][NextNews]_vars

\* the lookups that fetch, with the provider's answers on record
FetchByDate    == DoGetNewsByDate(TRUE)
FetchByKeyword == DoGetNewsByKeyword(TRUE)

NextRefetch ==
    \/ FetchByDate
    \/ FetchByKeyword
    \/ Expire

SpecRefetch == Init /\ [][NextRefetch]_vars

\* the list lookups, any of which may meet a failing store
NewsFaultEnvs == [fault : Faults \ {"none"}, up : BOOLEAN, mkt : {1}, feed : Feeds]

FaultyGetNewsByDate ==
    \E d \in NewsDates, e \in NewsFaultEnvs :
        CommitNews("GetNewsByDate", <<>>, NewsDateKey(Truncate24(d)),
                   \E i \in 1..Len(newsDb) : FormatDay(newsDb[i].publishedAt) = FormatDay(d),
                   GetNewsByDate(World(e), d), e, FALSE)

FaultyGetNewsByKeyword ==
    \E k \in NewsKeywords, e \in NewsFaultEnvs :
        CommitNews("GetNewsByKeyword", k, NewsKeywordKey(k),
                   \E i \in 1..Len(newsDb) :
                       \/ RegexI(newsDb[i].title, k)
                       \/ RegexI(newsDb[i].description, k)
                       \/ RegexI(newsDb[i].content, k)
                       \/ InSeq(k, newsDb[i].tags),
                   GetNewsByKeyword(World(e), k), e, FALSE)

NextNewsFault ==
    \/ CallGetNewsByDate
    \/ CallGetNewsByKeyword
    \/ Expire
    \/ FaultyGetNewsByDate
    \/ FaultyGetNewsByKeyword

SpecNewsFault == Init /\ [][NextNewsFault]_vars

(***************************************************************************)
(* The lookups with a failing cache.  In a call of a CacheFaultEnvs        *)
(* environment every cache.Get (cacheRead) or every cache.Set (cacheWrite) *)
(* returns an error.  fn records what the same call answers, and how it    *)
(* leaves the store, with a working cache: one that holds nothing where    *)
(* the reads fail, the cache as it is where the writes fail.               *)
(***************************************************************************)
\* the environment of a call that meets no fault, the provider answering
Quiet == [fault |-> "none", up |-> TRUE, mkt |-> 1, feed |-> <<>>]

\* the state after construction, but for fn
InitRest ==
    /\ db = <<>>
    /\ newsDb = <<>>
    /\ cache = EmptyCache
    /\ cfg = [useCache |-> TRUE, apiCache |-> FALSE, inMemory |-> FALSE]
    /\ now = 0
    /\ faults = 0
    /\ last = NoCall

CacheFaults == {"cacheRead", "cacheWrite"}

CacheFeeds == {<<>>, <<ArticleAX, ArticleBX>>}

CacheFaultEnvs ==
    [fault : CacheFaults \cup {"none"}, up : BOOLEAN, mkt : {1}, feed : CacheFeeds]

\* the world of a call with its cache working: empty if its reads failed
Working(w) ==
    [w EXCEPT !.cRdOk = TRUE, !.cWrOk = TRUE,
              !.cache = IF w.cRdOk THEN @ ELSE EmptyCache]

NoRef == [res |-> Nil, err |-> FALSE, db |-> <<>>, news |-> <<>>]

CommitRef(op, ticker, key, hadDoc, r, ref, e) ==
    /\ Returned(op, ticker, key, hadDoc, r, e)
    /\ fn' = [res |-> ref.res, err |-> ref.err, db |-> ref.w.db, news |-> ref.w.news]

CacheFaultGetStock ==
    \E e \in CacheFaultEnvs :
        CommitRef("GetStock", "SBER", StockKey("SBER"), HasTicker("SBER"),
                  GetStock(World(e), "SBER"),
                  GetStock(Working(World(e)), "SBER"), e)

CacheFaultGetStocks ==
    \E ts \in {<<>>, <<"SBER", "SBER">>}, e \in CacheFaultEnvs :
        CommitRef(IF Len(ts) = 0 THEN "getAllStocks" ELSE "GetStocks", "",
                  IF Len(ts) = 0 THEN AllKey ELSE StockKey(ts[1]),
                  IF Len(ts) = 0 THEN Len(db) > 0 ELSE HasTicker(ts[1]),
                  GetStocks(World(e), ts), GetStocks(Working(World(e)), ts), e)

CacheFaultGetStockQuote ==
    \E d \in {0}, e \in CacheFaultEnvs :
        CommitRef("GetStockQuote", "SBER", QuoteKey("SBER", d), HasQuote("SBER", d),
                  GetStockQuote(World(e), "SBER", d),
                  GetStockQuote(Working(World(e)), "SBER", d), e)

CacheFaultGetNews ==
    \E e \in CacheFaultEnvs :
        CommitRef("GetNews", <<"x">>, NewsKey(<<"x">>),
                  \E i \in 1..Len(newsDb) : newsDb[i].id = <<"x">>,
                  GetNews(World(e), <<"x">>), GetNews(Working(World(e)), <<"x">>), e)

CacheFaultGetNewsByDate ==
    \E e \in CacheFaultEnvs :
        CommitRef("GetNewsByDate", <<>>, NewsDateKey(0),
                  \E i \in 1..Len(newsDb) : FormatDay(newsDb[i].publishedAt) = 0,
                  GetNewsByDate(World(e), 0), GetNewsByDate(Working(World(e)), 0), e)

InitCacheFault ==
    /\ InitRest
    /\ fn = NoRef

NextCacheFault ==
    \/ CacheFaultGetStock
    \/ CacheFaultGetStocks
    \/ CacheFaultGetStockQuote
    \/ CacheFaultGetNews
    \/ CacheFaultGetNewsByDate
    \/ Expire

SpecCacheFault == InitCacheFault /\ [][NextCacheFault]_vars

(***************************************************************************)
(* The cache backends side by side: every call is made on a RedisCache and *)
(* on an InMemoryCache that have seen the same calls.  Here `cache` holds  *)
(* the contents of both, and fn the last call: its arguments, whether the  *)
(* Redis server failed it, whether each backend held the key when it was   *)
(* made, what each backend returned, and the keys each backend dropped.    *)
(***************************************************************************)
StockPrefix == <<"s", "t", "o", "c", "k", ":">>

CacheKeys == {StockPrefix \o <<"A">>, StockPrefix, <<"n", ":", "A">>}

\* "stock:", "stock:*", "n:?" and "z*"
CachePatterns ==
    {StockPrefix, StockPrefix \o <<"*">>, <<"n", ":", "?">>, <<"z", "*">>}

CacheValues ==
    {ZeroStock, [ZeroStock EXCEPT !.ticker = "SBER", !.price = 100],
     Nil, Some(<<>>)}

\* the zero values the callers hand to Get
CacheDests == {ZeroStock, Nil}

NoCacheCall ==
    [op |-> "none", key |-> <<>>, arg |-> Nil, fault |-> FALSE,
     held |-> [redis |-> FALSE, mem |-> FALSE],
     redis |-> [err |-> "nil", out |-> Nil],
     mem |-> [err |-> "nil", out |-> Nil],
     gone |-> [redis |-> {}, mem |-> {}]]

\* the call op(key, arg) returned: r from the RedisCache, which is left
\* as rc, and m from the InMemoryCache, which is left as mc
Both(op, key, arg, ok, r, rc, m, mc) ==
    /\ cache' = [redis |-> rc, mem |-> mc]
    /\ fn' = [op |-> op, key |-> key, arg |-> arg, fault |-> ~ok,
              held |-> [redis |-> key \in DOMAIN cache.redis,
                        mem |-> key \in DOMAIN cache.mem],
              redis |-> r, mem |-> m,
              gone |-> [redis |-> (DOMAIN cache.redis) \ DOMAIN rc,
                        mem |-> (DOMAIN cache.mem) \ DOMAIN mc]]
    /\ UNCHANGED <<db, newsDb, cfg, now, faults, last>>

CallCacheGet ==
    \E key \in CacheKeys, dest \in CacheDests, ok \in BOOLEAN :
        Both("Get", key, dest, ok,
             [err |-> RedisGet(cache.redis, key, dest, ok).err,
              out |-> RedisGet(cache.redis, key, dest, ok).dest], cache.redis,
             [err |-> InMemoryGet(cache.mem, key, dest).err,
              out |-> InMemoryGet(cache.mem, key, dest).dest], cache.mem)

CallCacheSet ==
    \E key \in CacheKeys, value \in CacheValues :
        Both("Set", key, value, TRUE,
             [err |-> RedisSet(cache.redis, key, value, TRUE).err, out |-> Nil],
             RedisSet(cache.redis, key, value, TRUE).c,
             [err |-> InMemorySet(cache.mem, key, value).err, out |-> Nil],
             InMemorySet(cache.mem, key, value).c)

CallCacheDelete ==
    \E key \in CacheKeys :
        Both("Delete", key, Nil, TRUE,
             [err |-> RedisDelete(cache.redis, key, TRUE).err, out |-> Nil],
             RedisDelete(cache.redis, key, TRUE).c,
             [err |-> InMemoryDelete(cache.mem, key).err, out |-> Nil],
             InMemoryDelete(cache.mem, key).c)

CallCacheExists ==
    \E key \in CacheKeys :
        Both("Exists", key, Nil, TRUE,
             [err |-> RedisExists(cache.redis, key, TRUE).err,
              out |-> RedisExists(cache.redis, key, TRUE).found], cache.redis,
             [err |-> InMemoryExists(cache.mem, key).err,
              out |-> InMemoryExists(cache.mem, key).found], cache.mem)

CallCacheInvalidate ==
    \E pattern \in CachePatterns :
        Both("Invalidate", pattern, Nil, TRUE,
             [err |-> RedisInvalidate(cache.redis, pattern, TRUE).err, out |-> Nil],
             RedisInvalidate(cache.redis, pattern, TRUE).c,
             [err |-> InMemoryInvalidate(cache.mem, pattern).err, out |-> Nil],
             InMemoryInvalidate(cache.mem, pattern).c)

InitCache ==
    /\ db = <<>>
    /\ newsDb = <<>>
    /\ cache = [redis |-> EmptyCache, mem |-> EmptyCache]
    /\ cfg = [useCache |-> TRUE, apiCache |-> FALSE, inMemory |-> FALSE]
    /\ now = 0
    /\ faults = 0
    /\ last = NoCall
    /\ fn = NoCacheCall

NextCache ==
    \/ CallCacheGet
    \/ CallCacheSet
    \/ CallCacheDelete
    \/ CallCacheExists
    \/ CallCacheInvalidate

SpecCache == InitCache /\ [][NextCache]_vars

(***************************************************************************)
(* Each upsert applied twice in a row to the same input, the clock         *)
(* standing still or moving on between the two applications.  fn records   *)
(* the input, the time of each application, and the store after the first  *)
(* and after the second.                                                   *)
(***************************************************************************)
NoUpsert ==
    [op |-> "none", arg |-> Nil, at1 |-> 0, at2 |-> 0,
     once |-> [db |-> <<>>, news |-> <<>>], twice |-> [db |-> <<>>, news |-> <<>>]]

\* the upsert op(arg) returned a1, and applied again at time at2 returned a2
Twice(op, arg, a1, a2, at2) ==
    /\ at2 <= MaxClock
    /\ db' = a2.w.db
    /\ newsDb' = a2.w.news
    /\ cache' = a2.w.cache
    /\ now' = at2
    /\ fn' = [op |-> op, arg |-> arg, at1 |-> now, at2 |-> at2,
              once  |-> [db |-> a1.w.db, news |-> a1.w.news],
              twice |-> [db |-> a2.w.db, news |-> a2.w.news]]
    /\ UNCHANGED <<cfg, faults, last>>

\* the world of the second application: what the first left, at time at2
Again(a, at2) ==
    [a.w EXCEPT !.now = at2, !.nRead = 0, !.nWrite = 0, !.nCache = 0]

TwiceSaveStock ==
    \E p \in SaveInputs, dt \in {0, 1} :
        Twice("SaveStock", p, SaveStock(World(Quiet), p),
              SaveStock(Again(SaveStock(World(Quiet), p), now + dt), p), now + dt)

TwiceSaveStockQuote ==
    \E p \in SaveQuoteInputs, dt \in {0, 1} :
        Twice("SaveStockQuote", p, SaveStockQuote(World(Quiet), p),
              SaveStockQuote(Again(SaveStockQuote(World(Quiet), p), now + dt), p),
              now + dt)

TwiceSaveNews ==
    \E p \in SaveNewsInputs, dt \in {0, 1} :
        Twice("SaveNews", p, SaveNews(World(Quiet), p),
              SaveNews(Again(SaveNews(World(Quiet), p), now + dt), p), now + dt)

InitUpsert ==
    /\ InitRest
    /\ fn = NoUpsert

NextUpsert ==
    \/ TwiceSaveStock
    \/ TwiceSaveStockQuote
    \/ TwiceSaveNews

SpecUpsert == InitUpsert /\ [][NextUpsert]_vars

(***************************************************************************)
(* The keyword lookup over saved news: an item that has the keyword in its *)
(* title, one that has it among its tags only, and one that has it among   *)
(* its related tickers only.                                               *)
(***************************************************************************)
Sber == <<"S", "B", "E", "R">>

KeywordItems ==
    {Some([ZeroNews EXCEPT !.id = <<"x">>, !.title = <<"s", "b", "e", "r">>,
                           !.publishedAt = 3]),
     Some([ZeroNews EXCEPT !.id = <<"t">>, !.title = <<"z">>, !.tags = <<Sber>>,
                           !.publishedAt = 4]),
     Some([ZeroNews EXCEPT !.id = <<"r">>, !.title = <<"z">>, !.relatedTo = <<Sber>>,
                           !.publishedAt = 5])}

KeywordQueries == {Sber, <<"s", "b", "e", "r">>, <<"z">>}

CallSaveNewsItem ==
    \E p \in KeywordItems :
        CommitNews("SaveNews", p.v.id, NewsKey(p.v.id),
                   \E i \in 1..Len(newsDb) : newsDb[i].id = p.v.id,
                   SaveNews(World(Quiet), p), Quiet, FALSE)

CallGetNewsByKeywordOf ==
    \E k \in KeywordQueries, e \in SteadyEnvs :
        CommitNews("GetNewsByKeyword", k, NewsKeywordKey(k),
                   \E i \in 1..Len(newsDb) :
                       \/ RegexI(newsDb[i].title, k)
                       \/ RegexI(newsDb[i].description, k)
                       \/ RegexI(newsDb[i].content, k)
                       \/ InSeq(k, newsDb[i].tags),
                   GetNewsByKeyword(World(e), k), e, FALSE)

\* the cached answer to a keyword reaches its TTL
ExpireKeyword ==
    \E k \in KeywordQueries :
        /\ NewsKeywordKey(k) \in DOMAIN cache
        /\ cache' = CacheDelete(cache, NewsKeywordKey(k))
        /\ UNCHANGED <<db, newsDb, cfg, now, faults, last, fn>>

NextKeyword ==
    \/ CallSaveNewsItem
    \/ CallGetNewsByKeywordOf
    \/ ExpireKeyword

SpecKeyword == Init /\ [][NextKeyword]_vars

(***************************************************************************)
(* Two calls of the stock repository running at once on a cold system.     *)
(* Nothing in the repository orders them, so each call is a process that   *)
(* takes the steps of its method one at a time: every cache operation,     *)
(* store operation and provider request is one step.  fn[i] is process i:  *)
(* its call, the step it is at (pc), its local stock or quote (val), and   *)
(* what its FindOne found.                                                 *)
(***************************************************************************)
Procs == {1, 2}

RaceStocks ==
    {[ZeroStock EXCEPT !.ticker = "SBER", !.name = "one", !.price = 50],
     [ZeroStock EXCEPT !.ticker = "SBER", !.name = "two", !.price = 60]}

\* two quotes of one ticker for two hours of day 0
RaceQuotes ==
    {[ZeroQuote EXCEPT !.ticker = "SBER", !.close = 710, !.date = 1],
     [ZeroQuote EXCEPT !.ticker = "SBER", !.close = 720, !.date = 5]}

RaceCalls ==
    [op : {"GetStock"}, arg : {"SBER", "GAZP"}] \cup
    [op : {"SaveStock"}, arg : RaceStocks] \cup
    [op : {"SaveStockQuote"}, arg : RaceQuotes]

Started(c) ==
    [op |-> c.op, arg |-> c.arg, pc |-> "start", val |-> Nil, found |-> FALSE,
     err |-> FALSE]

\* process i goes to step pc with local value val
Step(i, pc, val, found, err) ==
    fn' = [fn EXCEPT ![i] = [@ EXCEPT !.pc = pc, !.val = val, !.found = found,
                                      !.err = err]]

\* GetStock: r.cache.Get
GetStockCacheGet ==
    \E i \in Procs :
        /\ fn[i].op = "GetStock" /\ fn[i].pc = "start"
        /\ LET cached == CacheGet(cache, StockKey(fn[i].arg), ZeroStock) IN
           IF cfg.useCache /\ cached.ticker # ""
             THEN Step(i, "done", Some(cached), FALSE, FALSE)
             ELSE Step(i, "find", Nil, FALSE, FALSE)
        /\ UNCHANGED <<db, newsDb, cache, cfg, now, faults, last>>

\* GetStock: r.db.FindOne
GetStockFindOne ==
    \E i \in Procs :
        /\ fn[i].op = "GetStock" /\ fn[i].pc = "find"
        /\ LET f == FindOne(World(Quiet), LAMBDA d : d.v.ticker = fn[i].arg) IN
           IF f.st = "ok" THEN Step(i, "warm", Some(AsStock(f.doc)), TRUE, FALSE)
           ELSE Step(i, "fetch", Nil, FALSE, FALSE)
        /\ UNCHANGED <<db, newsDb, cache, cfg, now, faults, last>>

\* GetStock: r.cache.Set of the record found, and return
GetStockWarm ==
    \E i \in Procs :
        /\ fn[i].op = "GetStock" /\ fn[i].pc = "warm"
        /\ cache' = IF cfg.useCache
                      THEN CacheSet(cache, StockKey(fn[i].arg), fn[i].val.v)
                      ELSE cache
        /\ Step(i, "done", fn[i].val, TRUE, FALSE)
        /\ UNCHANGED <<db, newsDb, cfg, now, faults, last>>

\* GetStock: r.fetchStockFromAPI, the provider answering or not
GetStockFetch ==
    \E i \in Procs, up \in BOOLEAN :
        /\ fn[i].op = "GetStock" /\ fn[i].pc = "fetch"
        /\ LET a == fetchStockFromAPI(World([Quiet EXCEPT !.up = up]), fn[i].arg) IN
           /\ cache' = a.w.cache
           /\ IF a.err THEN Step(i, "done", Nil, FALSE, TRUE)
              ELSE Step(i, "insert", a.res, FALSE, FALSE)
        /\ UNCHANGED <<db, newsDb, cfg, now, faults, last>>

\* GetStock: r.db.InsertOne
GetStockInsertOne ==
    \E i \in Procs :
        /\ fn[i].op = "GetStock" /\ fn[i].pc = "insert"
        /\ db' = InsertOne(World(Quiet), StockDoc(fn[i].val.v)).w.db
        /\ Step(i, "cacheSet", fn[i].val, FALSE, FALSE)
        /\ UNCHANGED <<newsDb, cache, cfg, now, faults, last>>

\* the stock or quote a Save call writes, and the filter it looks it up by
RaceValue(c) ==
    IF c.op = "SaveStock" THEN [c.arg EXCEPT !.updatedAt = now] ELSE c.arg

RaceDoc(c, v) == IF c.op = "SaveStock" THEN StockDoc(v) ELSE QuoteDoc(v)

RaceFilter(c, d) ==
    IF c.op = "SaveStock" THEN d.v.ticker = c.arg.ticker
    ELSE InDay(d, c.arg.ticker, c.arg.date)

RaceKey(c) ==
    CASE c.op = "GetStock" -> StockKey(c.arg)
      [] c.op = "SaveStock" -> StockKey(c.arg.ticker)
      [] c.op = "SaveStockQuote" -> QuoteKey(c.arg.ticker, c.arg.date)

\* SaveStock: stamp the stock, r.db.FindOne
SaveStockFindOne ==
    \E i \in Procs :
        /\ fn[i].op = "SaveStock" /\ fn[i].pc = "start"
        /\ Step(i, "write", Some(RaceValue(fn[i])),
                FindOne(World(Quiet), LAMBDA d : RaceFilter(fn[i], d)).st = "ok", FALSE)
        /\ UNCHANGED <<db, newsDb, cache, cfg, now, faults, last>>

\* SaveStockQuote: r.db.FindOne
SaveStockQuoteFindOne ==
    \E i \in Procs :
        /\ fn[i].op = "SaveStockQuote" /\ fn[i].pc = "start"
        /\ Step(i, "write", Some(RaceValue(fn[i])),
                FindOne(World(Quiet), LAMBDA d : RaceFilter(fn[i], d)).st = "ok", FALSE)
        /\ UNCHANGED <<db, newsDb, cache, cfg, now, faults, last>>

\* SaveStock, SaveStockQuote: r.db.ReplaceOne if FindOne found a record,
\* r.db.InsertOne if not
SaveWrite ==
    \E i \in Procs :
        /\ fn[i].op \in {"SaveStock", "SaveStockQuote"} /\ fn[i].pc = "write"
        /\ db' = IF fn[i].found
                   THEN ReplaceOne(World(Quiet), LAMBDA d : RaceFilter(fn[i], d),
                                   RaceDoc(fn[i], fn[i].val.v)).w.db
                   ELSE InsertOne(World(Quiet), RaceDoc(fn[i], fn[i].val.v)).w.db
        /\ Step(i, "cacheSet", fn[i].val, fn[i].found, FALSE)
        /\ UNCHANGED <<newsDb, cache, cfg, now, faults, last>>

\* the r.cache.Set that ends GetStock, SaveStock and SaveStockQuote
RaceCacheSet ==
    \E i \in Procs :
        /\ fn[i].pc = "cacheSet"
        /\ cache' = IF cfg.useCache THEN CacheSet(cache, RaceKey(fn[i]), fn[i].val.v)
                                    ELSE cache
        /\ Step(i, "done", fn[i].val, fn[i].found, FALSE)
        /\ UNCHANGED <<db, newsDb, cfg, now, faults, last>>

InitRace ==
    /\ InitRest
    /\ fn \in [Procs -> {Started(c) : c \in RaceCalls}]

NextRace ==
    \/ GetStockCacheGet
    \/ GetStockFindOne
    \/ GetStockWarm
    \/ GetStockFetch
    \/ GetStockInsertOne
    \/ SaveStockFindOne
    \/ SaveStockQuoteFindOne
    \/ SaveWrite
    \/ RaceCacheSet

SpecRace == InitRace /\ [][NextRace]_vars

(***************************************************************************)
(* The lookups under every configuration of the caches: the repositories'  *)
(* useCache, and the provider clients' own useCache, which the             *)
(* configuration sets for each client (cfg.MOEX.UseCache,                  *)
(* cfg.NewsAPI.UseCache).                                                  *)
(***************************************************************************)
InitSole ==
    /\ db = <<>>
    /\ newsDb = <<>>
    /\ cache = EmptyCache
    /\ cfg \in {[useCache |-> u, apiCache |-> a, inMemory |-> FALSE] : u, a \in BOOLEAN}
    /\ now = 0
    /\ faults = 0
    /\ last = NoCall
    /\ fn = NoFetch

NextSole ==
    \/ SteadyGetStock
    \/ CallGetNewsByDate
    \/ Expire

SpecSole == InitSole /\ [][NextSole]_vars

(***************************************************************************)
(* The writes of both repositories to the store: quotes and detailed       *)
(* quotes go to the one collection "stocks", news to "news".               *)
(***************************************************************************)
NextStore ==
    \/ SteadySaveStock
    \/ CallSaveStockQuote
    \/ CallSaveNews
    \/ Expire

SpecStore == Init /\ [][NextStore]_vars

(***************************************************************************)
(* A call that stops between its store write and its cache write: the      *)
(* process running GetStock or SaveStock dies after InsertOne / ReplaceOne *)
(* has returned and before r.cache.Set is called.  fn.pending holds, for   *)
(* each ticker whose call stopped so and has not been looked up past the   *)
(* cache since, the stock that call wrote and the call it was; fn.expect   *)
(* is what fn.pending held for the ticker of the GetStock that returned    *)
(* last.                                                                   *)
(***************************************************************************)
\* GetStock up to the return of InsertOne
GetStockStopped(w, t) ==
    LET cached == CacheGet(w.cache, StockKey(t), ZeroStock)
        f      == FindOne(CacheRead(w, w.useCache), LAMBDA d : d.v.ticker = t)
        a      == fetchStockFromAPI(f.w, t)
        i      == InsertOne(a.w, StockDoc(a.res.v))
    IN  [reached |-> /\ ~(w.useCache /\ w.cRdOk /\ cached.ticker # "")
                     /\ f.st # "ok" /\ ~a.err /\ ~i.err,
         w |-> i.w, val |-> a.res.v]

\* SaveStock up to the return of ReplaceOne / InsertOne
SaveStockStopped(w, p) ==
    LET s == [p.v EXCEPT !.updatedAt = w.now]
        f == FindOne(w, LAMBDA d : d.v.ticker = s.ticker)
        r == IF f.st = "ok"
               THEN ReplaceOne(f.w, LAMBDA d : d.v.ticker = s.ticker, StockDoc(s))
               ELSE InsertOne(f.w, StockDoc(s))
    IN  [reached |-> ~r.err, w |-> r.w, val |-> s]

NoPending == [pending |-> [t \in {} |-> NIL], expect |-> Nil]

Pend(t, val, by) ==
    [x \in (DOMAIN fn.pending) \cup {t} |->
        IF x = t THEN [val |-> val, by |-> by] ELSE fn.pending[x]]

Unpend(t) == [x \in (DOMAIN fn.pending) \ {t} |-> fn.pending[x]]

StopGetStock ==
    \E t \in LookupTickers, e \in Envs :
        LET c == GetStockStopped(World(e), t) IN
        /\ c.reached
        /\ Returned("GetStockStopped", t, StockKey(t), HasTicker(t),
                    Ret(c.w, Some(c.val), FALSE, "provider"), e)
        /\ fn' = [pending |-> Pend(t, c.val, "GetStock"), expect |-> Nil]

StopSaveStock ==
    \E p \in SaveInputs \ {Nil}, e \in Envs :
        LET c == SaveStockStopped(World(e), p) IN
        /\ c.reached
        /\ Returned("SaveStockStopped", p.v.ticker, StockKey(p.v.ticker),
                    HasTicker(p.v.ticker), Ret(c.w, Some(c.val), FALSE, "none"), e)
        /\ fn' = [pending |-> Pend(p.v.ticker, c.val, "SaveStock"), expect |-> Nil]

NextGetStock ==
    \E t \in LookupTickers, e \in Envs :
        LET r == GetStock(World(e), t) IN
        /\ Returned("GetStock", t, StockKey(t), HasTicker(t), r, e)
        /\ fn' = [pending |-> IF r.src = "cache" THEN fn.pending ELSE Unpend(t),
                  expect  |-> IF t \in DOMAIN fn.pending THEN Some(fn.pending[t])
                              ELSE Nil]

WholeSaveStock ==
    \E p \in SaveInputs \ {Nil}, e \in Envs :
        LET r == SaveStock(World(e), p) IN
        /\ Returned("SaveStock", p.v.ticker, StockKey(p.v.ticker),
                    HasTicker(p.v.ticker), r, e)
        /\ fn' = [pending |-> IF r.err THEN fn.pending ELSE Unpend(p.v.ticker),
                  expect  |-> Nil]

InitStop ==
    /\ InitRest
    /\ fn = NoPending

NextStop ==
    \/ StopGetStock
    \/ StopSaveStock
    \/ NextGetStock
    \/ WholeSaveStock
    \/ Expire

SpecStop == InitStop /\ [][NextStop]_vars

(***************************************************************************)
(* getAllStocks cut short: the context is cancelled, or the provider or    *)
(* the store gives out, after `at` of the roster's requests (cut "fetch")  *)
(* or `at` of its inserts (cut "insert") have succeeded.  fn records the   *)
(* cut of the call that returned last and whether that call left the whole *)
(* cache as it was.                                                        *)
(***************************************************************************)
NoCut == [cut |-> "none", at |-> 0, cacheSame |-> TRUE]

Cuts == {"fetch", "insert"}

CutWorld(e, cut, k) ==
    [World(e) EXCEPT !.upFor = IF cut = "fetch" THEN Some(k) ELSE Nil,
                     !.wrFor = IF cut = "insert" THEN Some(k) ELSE Nil]

CutGetAllStocks ==
    \E cut \in Cuts, k \in 0..(Len(Roster) - 1), e \in SteadyEnvs :
        LET r == getAllStocks(CutWorld(e, cut, k)) IN
        /\ e.up /\ r.err /\ faults < MaxFaults
        /\ Returned("getAllStocks", "", AllKey, Len(db) > 0, r, e)
        /\ fn' = [cut |-> cut, at |-> k, cacheSame |-> r.w.cache = cache]

WholeGetStocks ==
    \E ts \in TickerLists, e \in SteadyEnvs :
        /\ Returned(IF Len(ts) = 0 THEN "getAllStocks" ELSE "GetStocks", "",
                    IF Len(ts) = 0 THEN AllKey ELSE StockKey(ts[1]),
                    IF Len(ts) = 0 THEN Len(db) > 0 ELSE HasTicker(ts[1]),
                    GetStocks(World(e), ts), e)
        /\ fn' = NoCut

InitCut ==
    /\ db = <<>>
    /\ newsDb = <<>>
    /\ cache = EmptyCache
    /\ cfg \in {[useCache |-> u, apiCache |-> a, inMemory |-> FALSE] : u, a \in BOOLEAN}
    /\ now = 0
    /\ faults = 0
    /\ last = NoCall
    /\ fn = NoCut

NextCut ==
    \/ CutGetAllStocks
    \/ WholeGetStocks

SpecCut == InitCut /\ [][NextCut]_vars

(***************************************************************************)
(* Quotes and detailed quotes in the one collection "stocks": the lookups  *)
(* of quotes next to the calls that write detailed quotes.                 *)
(***************************************************************************)
KindsQuote ==
    [ticker |-> "SBER", open |-> 700, high |-> 720, low |-> 690, close |-> 710,
     volume |-> 5, date |-> 1]

KindsGetStockQuote ==
    \E e \in SteadyEnvs :
        Commit("GetStockQuote", "SBER", QuoteKey("SBER", 0), HasQuote("SBER", 0),
               GetStockQuote(World(e), "SBER", 0), e)

KindsSaveStockQuote ==
    Commit("SaveStockQuote", "SBER", QuoteKey("SBER", 1), HasQuote("SBER", 1),
           SaveStockQuote(World(Quiet), Some(KindsQuote)), Quiet)

NextKinds ==
    \/ SteadyGetStock
    \/ SteadyGetStocks
    \/ KindsGetStockQuote
    \/ KindsSaveStockQuote
    \/ Expire

SpecKinds == Init /\ [][NextKinds]_vars

(***************************************************************************)
(* The quote lookups over time: calls of GetStock and SaveStock with the   *)
(* market moving, the provider up or down, store writes failing, and cache *)
(* entries expiring, but no store read failing.  fn.cur holds, for each    *)
(* ticker whose GetStock or SaveStock has succeeded, the quote the store   *)
(* took from the latest of the first successful GetStock and the           *)
(* successful SaveStocks; fn.fetches counts the GetStocks of each ticker   *)
(* that returned a fetched quote; fn.pre is what fn.cur held for the       *)
(* ticker of the last call when it started.                                *)
(***************************************************************************)
PersistEnvs == [fault : {"none", "write"}, up : BOOLEAN, mkt : 1..MaxMarket, feed : {<<>>}]

NoHistory ==
    [cur |-> [t \in {} |-> NIL], fetches |-> [t \in LookupTickers |-> 0], pre |-> Nil]

Held(t) == IF t \in DOMAIN fn.cur THEN Some(fn.cur[t]) ELSE Nil

Hold(t, v) ==
    [x \in (DOMAIN fn.cur) \cup {t} |-> IF x = t THEN v ELSE fn.cur[x]]

PersistGetStock ==
    \E t \in LookupTickers, e \in PersistEnvs :
        LET r == GetStock(World(e), t) IN
        /\ Returned("GetStock", t, StockKey(t), HasTicker(t), r, e)
        /\ fn' = [cur     |-> IF ~r.err /\ t \notin DOMAIN fn.cur
                                THEN Hold(t, r.res.v) ELSE fn.cur,
                  fetches |-> IF ~r.err /\ r.src = "provider" /\ fn.fetches[t] < 2
                                THEN [fn.fetches EXCEPT ![t] = @ + 1]
                                ELSE fn.fetches,
                  pre     |-> Held(t)]

PersistSaveStock ==
    \E p \in SaveInputs \ {Nil}, e \in PersistEnvs :
        LET r == SaveStock(World(e), p) IN
        /\ Returned("SaveStock", p.v.ticker, StockKey(p.v.ticker),
                    HasTicker(p.v.ticker), r, e)
        /\ fn' = [cur     |-> IF r.err THEN fn.cur
                              ELSE Hold(p.v.ticker, [p.v EXCEPT !.updatedAt = now]),
                  fetches |-> fn.fetches,
                  pre     |-> Held(p.v.ticker)]

InitPersist ==
    /\ InitRest
    /\ fn = NoHistory

NextPersist ==
    \/ PersistGetStock
    \/ PersistSaveStock
    \/ Expire

SpecPersist == InitPersist /\ [][NextPersist]_vars

(***************************************************************************)
(* The detailed quote derived from a Quote: GetStockQuote on a store that  *)
(* holds no detailed quote of the day, over Quotes of every change from    *)
(* -MaxChange to MaxChange that SaveStock has written.                     *)
(***************************************************************************)
SynthStocks ==
    {[ticker |-> "SBER", name |-> "saved", price |-> 50, change |-> c,
      changePerc |-> c, volume |-> 7, updatedAt |-> 0] : c \in -MaxChange..MaxChange}

SynthSaveStock ==
    \E s \in SynthStocks :
        Commit("SaveStock", "SBER", StockKey("SBER"), HasTicker("SBER"),
               SaveStock(World(Quiet), Some(s)), Quiet)

SynthGetStockQuote ==
    \E d \in {0, 24}, e \in SteadyEnvs :
        Commit("GetStockQuote", "SBER", QuoteKey("SBER", d), HasQuote("SBER", d),
               GetStockQuote(World(e), "SBER", d), e)

NextSynth ==
    \/ SynthSaveStock
    \/ SynthGetStockQuote
    \/ Expire

SpecSynth == Init /\ [][NextSynth]_vars

(***************************************************************************)
(* GetStockHistory over ranges that hold a weekend (hour 0 is a Thursday,  *)
(* hour 96 the Monday after), that are a Saturday alone, and that end      *)
(* before they start.  fn records whether the call that returned last left *)
(* the whole cache as it was.                                              *)
(***************************************************************************)
SpanRanges == {<<0, 24>>, <<0, 96>>, <<48, 48>>, <<24, 0>>}

InSpan(d, t, s, e) ==
    /\ d.kind = "quote"
    /\ d.v.ticker = t
    /\ d.v.date >= Truncate24(s)
    /\ d.v.date <= Truncate24(e + 24)

SpanGetStockHistory ==
    \E r \in SpanRanges, e \in SteadyEnvs :
        LET h == GetStockHistory(World(e), "SBER", r[1], r[2]) IN
        /\ Returned("GetStockHistory", "SBER", HistoryKey("SBER", r[1], r[2]),
                    \E i \in 1..Len(db) : InSpan(db[i], "SBER", r[1], r[2]), h, e)
        /\ fn' = [s |-> r[1], e |-> r[2], cacheSame |-> h.w.cache = cache]

SpanExpire ==
    \E k \in DOMAIN cache :
        /\ k[1] = "stock_history"
        /\ cache' = CacheDelete(cache, k)
        /\ UNCHANGED <<db, newsDb, cfg, now, faults, last, fn>>

InitSpan ==
    /\ InitRest
    /\ fn = [s |-> 0, e |-> 0, cacheSame |-> TRUE]

NextSpan ==
    \/ SpanGetStockHistory
    \/ SteadyGetStock
    \/ SpanExpire

SpecSpan == InitSpan /\ [][NextSpan]_vars

(***************************************************************************)
(* generateNewsID on its own: every URL of up to MaxUrlLen characters over *)
(* UrlAlphabet, converted at two times; and every pair of URLs of up to    *)
(* MaxPairLen characters, converted and saved into an empty store.         *)
(***************************************************************************)
UrlAlphabet == {"a", "b", "/", ".", "?", "#"}
UrlsUpTo(n) == UNION {[1..k -> UrlAlphabet] : k \in 0..n}
CallTimes   == {1, 2}

InitID ==
    /\ InitRest
    /\ fn \in [stage : {"in"}, url : UrlsUpTo(MaxUrlLen),
                t1 : CallTimes, t2 : CallTimes, id1 : {<<>>}, id2 : {<<>>}]

GenerateTwice ==
    /\ fn.stage = "in"
    /\ fn' = [fn EXCEPT !.stage = "out",
                        !.id1 = generateNewsID(fn.url, fn.t1),
                        !.id2 = generateNewsID(fn.url, fn.t2)]
    /\ UNCHANGED <<db, newsDb, cache, cfg, now, faults, last>>

SpecID == InitID /\ [][GenerateTwice]_vars

ArticleAt(url) == [ArticleAX EXCEPT !.url = url]

InitPair ==
    /\ InitRest
    /\ fn \in [stage : {"in"}, a : UrlsUpTo(MaxPairLen), b : UrlsUpTo(MaxPairLen),
                ida : {<<>>}, idb : {<<>>}]

\* both articles arrive in one answer and are saved as the fetch saves them
SaveBoth ==
    /\ fn.stage = "in"
    /\ LET e    == [fault |-> "none", up |-> TRUE, mkt |-> 1, feed |-> <<>>]
           news == NewsFromArticles(<<ArticleAt(fn.a), ArticleAt(fn.b)>>, now)
           w    == SaveEach(World(e), news, 1)
       IN  /\ fn' = [fn EXCEPT !.stage = "out", !.ida = news[1].id, !.idb = news[2].id]
           /\ newsDb' = w.news
           /\ cache' = w.cache
    /\ UNCHANGED <<db, cfg, now, faults, last>>

SpecIDPair == InitPair /\ [][SaveBoth]_vars

(***************************************************************************)
(* The ranking, search and cross-reference calls of the services.  The     *)
(* store starts with any universe of up to MaxUniverse quotes that         *)
(* SaveStock has written (the empty store makes the repository fetch the   *)
(* roster), and with either kind of cache.  fn is the record of the last   *)
(* service call: what it was given, what it returned, the list it worked   *)
(* on, and what the same state answers to the call with the default limit  *)
(* (ref) and to the gainers call with the same limit (twin).               *)
(***************************************************************************)
Changes == {-1, 0, 1}

Listed(i, c) ==
    [ticker |-> Roster[i], name |-> Roster[i], price |-> 100 + i, change |-> c,
     changePerc |-> c, volume |-> (i + c) % 3, updatedAt |-> 0]

Universes == UNION {[1..n -> Changes] : n \in 0..MaxUniverse}

Limits == {-1, 0, 1, MaxUniverse - 1, MaxUniverse, DefaultLimit, Len(Roster) + 1}

ArticleSG ==
    [url |-> <<"d", "/", "s", "g">>, title |-> <<"S", "B", "E", "R", " ", "G", "A", "Z", "P">>,
     description |-> <<>>, content |-> <<>>, source |-> "rbc", publishedAt |-> 3]

\* eleven articles of today with ids of their own, the oldest first
ArticleNo(i) ==
    [url |-> <<"n", "/", ToString(i)>>, title |-> <<"M", "O", "E", "X">>,
     description |-> <<>>, content |-> <<>>, source |-> "tass", publishedAt |-> i]

ServiceFeeds ==
    {<<>>, <<ArticleAX, ArticleBX, ArticleSG>>, [i \in 1..(DefaultLimit + 1) |-> ArticleNo(i)]}

ServiceEnvs == [fault : {"none"}, up : BOOLEAN, mkt : {1}, feed : ServiceFeeds]

Queries == {<<>>, <<"s", "b", "e", "r">>, <<"z", "z">>}

TickerSets ==
    {<<>>, << <<"G", "A", "Z", "P">> >>,
     << <<"S", "B", "E", "R">>, <<"G", "A", "Z", "P">> >>}

NoService ==
    [op |-> "none", arg |-> <<>>, limit |-> 0, res |-> Nil, err |-> FALSE,
     src |-> "none", universe |-> <<>>, ref |-> Nil, twin |-> Nil,
     nRead |-> 0, nWrite |-> 0, nApi |-> 0, nHttp |-> 0, nCache |-> 0,
     same |-> TRUE]

\* the service call op(arg, limit) answered a in environment e
Serve(op, arg, limit, a, ref, twin, e) ==
    /\ ~e.up => e.feed = <<>>
    /\ e.feed # <<>> => a.w.nHttp > 0
    /\ db' = a.w.db
    /\ newsDb' = a.w.news
    /\ cache' = a.w.cache
    /\ fn' = [op |-> op, arg |-> arg, limit |-> limit, res |-> a.res, err |-> a.err,
              src |-> a.src, universe |-> a.universe, ref |-> ref, twin |-> twin,
              nRead |-> a.w.nRead, nWrite |-> a.w.nWrite, nApi |-> a.w.nApi,
              nHttp |-> a.w.nHttp, nCache |-> a.w.nCache,
              same |-> a.w.db = db /\ a.w.news = newsDb /\ a.w.cache = cache]
    /\ UNCHANGED <<cfg, now, faults, last>>

\* what the state answers to the call with the default limit, where the
\* call was made with a limit that is not positive
Ref(n, a) == IF n <= 0 THEN a.res ELSE Nil

CallGetMOEXTopGainers ==
    \E n \in Limits, e \in SteadyEnvs :
        Serve("GetMOEXTopGainers", <<>>, n, GetMOEXTopGainers(World(e), n),
              Ref(n, GetMOEXTopGainers(World(e), DefaultLimit)), Nil, e)

CallGetMOEXTopLosers ==
    \E n \in Limits, e \in SteadyEnvs :
        Serve("GetMOEXTopLosers", <<>>, n, GetMOEXTopLosers(World(e), n),
              Ref(n, GetMOEXTopLosers(World(e), DefaultLimit)),
              GetMOEXTopGainers(World(e), n).res, e)

CallGetMOEXTopVolume ==
    \E n \in Limits, e \in SteadyEnvs :
        Serve("GetMOEXTopVolume", <<>>, n, GetMOEXTopVolume(World(e), n),
              Ref(n, GetMOEXTopVolume(World(e), DefaultLimit)), Nil, e)

CallSearchStocks ==
    \E q \in Queries, e \in SteadyEnvs :
        Serve("SearchStocks", q, 0, SearchStocks(World(e), q), Nil, Nil, e)

CallGetRecentNews ==
    \E n \in Limits, e \in ServiceEnvs :
        Serve("GetRecentNews", <<>>, n, GetRecentNews(World(e), n),
              Ref(n, GetRecentNews(World(e), DefaultLimit)), Nil, e)

\* one of the lists the calls read reaches its TTL
ExpireList ==
    \E k \in (DOMAIN cache) \cap {AllKey, NewsDateKey(now)} :
        /\ cache' = CacheDelete(cache, k)
        /\ UNCHANGED <<db, newsDb, cfg, now, faults, last, fn>>

\* the store holds universe u, written by SaveStock
InitWith(U) ==
    /\ db \in {[i \in 1..Len(u) |-> StockDoc(Listed(i, u[i]))] : u \in U}
    /\ newsDb = <<>>
    /\ cache = EmptyCache
    /\ cfg \in {[useCache |-> TRUE, apiCache |-> FALSE, inMemory |-> m] : m \in BOOLEAN}
    /\ now = 0
    /\ faults = 0
    /\ last = NoCall
    /\ fn = NoService

\* ranking and search over every universe
InitRank == InitWith(Universes)

NextRank ==
    \/ CallGetMOEXTopGainers
    \/ CallGetMOEXTopLosers
    \/ CallGetMOEXTopVolume
    \/ CallSearchStocks
    \/ ExpireList

SpecRank == InitRank /\ [][NextRank]_vars

\* the calls that take a limit, over the roster and the universes of at
\* most one quote, and over today's news
InitLimit == InitWith({u \in Universes : Len(u) <= 1})

NextLimit ==
    \/ CallGetMOEXTopGainers
    \/ CallGetMOEXTopLosers
    \/ CallGetMOEXTopVolume
    \/ CallGetRecentNews
    \/ ExpireList

SpecLimit == InitLimit /\ [][NextLimit]_vars

\* the cross-reference of today's news with a list of tickers
CrossFeeds == {<<>>, <<ArticleAX, ArticleBX, ArticleSG>>, <<ArticleSG, ArticleBX>>}
CrossEnvs  == [fault : {"none"}, up : BOOLEAN, mkt : {1}, feed : CrossFeeds]

CallGetNewsForMultipleTickers ==
    \E ts \in TickerSets, e \in CrossEnvs :
        Serve("GetNewsForMultipleTickers", ts, 0,
              GetNewsForMultipleTickers(World(e), ts), Nil, Nil, e)

\* SaveNews from outside the services, leaving the record of the last
\* service call as it is
SaveNewsAside ==
    \E p \in SaveNewsInputs, e \in SteadyEnvs :
        /\ ~SaveNews(World(e), p).err
        /\ newsDb' = SaveNews(World(e), p).w.news
        /\ cache' = SaveNews(World(e), p).w.cache
        /\ UNCHANGED <<db, cfg, now, faults, last, fn>>

NextCross ==
    \/ CallGetNewsForMultipleTickers
    \/ SaveNewsAside
    \/ Expire

SpecCross == InitWith({<<>>}) /\ [][NextCross]_vars


(***************************************************************************)
(* The service calls that validate their input, each with an empty and     *)
(* with a proper input.                                                    *)
(***************************************************************************)
InfoTickers  == {"", "SBER"}
InfoLists    == {<<>>, <<"SBER">>}
QuoteTimes   == {Nil}
HistorySpans == {<<Some(0), Nil>>}

\* the news provider answers with three articles of today, or not at all
DeskEnvs ==
    {[fault |-> "none", up |-> TRUE, mkt |-> 1,
      feed |-> <<ArticleAX, ArticleBX, ArticleSG>>],
     [fault |-> "none", up |-> FALSE, mkt |-> 1, feed |-> <<>>]}

CallGetStockInfo ==
    \E t \in InfoTickers, e \in SteadyEnvs :
        Serve("GetStockInfo", t, 0, GetStockInfo(World(e), t), Nil, Nil, e)

CallGetMultipleStocks ==
    \E ts \in InfoLists, e \in SteadyEnvs :
        Serve("GetMultipleStocks", ts, 0, GetMultipleStocks(World(e), ts), Nil, Nil, e)

CallGetStockQuoteOfService ==
    \E t \in InfoTickers, d \in QuoteTimes, e \in SteadyEnvs :
        Serve("GetStockQuote", t, 0, StockServiceGetStockQuote(World(e), t, d),
              Nil, Nil, e)

CallGetStockHistoricalData ==
    \E t \in InfoTickers, r \in HistorySpans, e \in SteadyEnvs :
        Serve("GetStockHistoricalData", t, 0,
              GetStockHistoricalData(World(e), t, r[1], r[2]), Nil, Nil, e)

CallGetNewsById ==
    \E id \in NewsIDs, e \in SteadyEnvs :
        Serve("GetNewsById", id, 0, GetNewsById(World(e), id), Nil, Nil, e)

CallSearchNewsByKeyword ==
    \E k \in NewsKeywords, e \in DeskEnvs :
        Serve("SearchNewsByKeyword", k, 0, SearchNewsByKeyword(World(e), k),
              Nil, Nil, e)

CallGetNewsForTicker ==
    \E t \in NewsTickers \cup {<<>>}, e \in DeskEnvs :
        Serve("GetNewsForTicker", t, 0, GetNewsForTicker(World(e), t), Nil, Nil, e)

NextValidate ==
    \/ CallGetStockInfo
    \/ CallGetMultipleStocks
    \/ CallGetStockQuoteOfService
    \/ CallGetStockHistoricalData
    \/ CallSearchStocks
    \/ CallGetNewsById
    \/ CallSearchNewsByKeyword
    \/ CallGetNewsForTicker
    \/ CallGetNewsForMultipleTickers
    \/ ExpireList

SpecValidate == InitWith({<<>>}) /\ [][NextValidate]_vars

(***************************************************************************)
(* Properties of the quote lookup (Spec, SpecFault).  `last` describes the *)
(* call that returned last: hadKey / hadDoc say what the cache and the     *)
(* store held for its key when it started, keyAfter what the cache held    *)
(* for the key when it returned.  The store changes only inside calls, so  *)
(* db is the store as that call left it.                                   *)
(***************************************************************************)
InStore(stock) == \E i \in 1..Len(db) : db[i] = StockDoc(stock)

\* C1: a GetStock(T) on a cold cache and store with the provider answering Q
\* returns Q and leaves Q in the store and in the cache; the GetStock(T)
\* that follows it returns Q again and does not invoke the provider, whether
\* or not the cache entry has expired or the provider has gone down meanwhile
C1_ColdLookup ==
    /\ (last.op = "GetStock" /\ ~last.hadKey /\ ~last.hadDoc /\ last.up) =>
          /\ ~last.err
          /\ ~last.got.nil
          /\ last.res = last.got
          /\ InStore(last.got.v)
          /\ last.keyAfter = last.got
    /\ (last.op = "GetStock" /\ last.prevCold) =>
          /\ ~last.err
          /\ last.res = last.prevRes
          /\ last.nApi = 0

C1_Witness ==
    /\ last.op = "GetStock"
    /\ last.prevCold
    /\ ~last.hadKey
    /\ ~last.up
    /\ ~last.err

\* C2: a GetStock(T) that starts with a record for T in the store and no
\* cache entry for T returns that record, does not invoke the provider and
\* leaves the record cached under T's key
C2_StoreWarm ==
    (last.op = "GetStock" /\ last.hadDoc /\ ~last.hadKey) =>
        /\ ~last.err
        /\ last.nApi = 0
        /\ \E i \in 1..Len(db) :
              db[i].v.ticker = last.ticker /\ last.res = Some(AsStock(db[i]))
        /\ last.keyAfter = last.res

C2_Witness ==
    /\ last.op = "GetStock"
    /\ last.hadDoc
    /\ ~last.hadKey
    /\ ~last.up
    /\ last.src = "store"

\* C3: a lookup that finds an entry under its cache key returns that entry
\* and reads no store, writes no store and calls no provider
C3_CacheHitFinal ==
    (last.op \in {"GetStock", "getAllStocks"} /\ last.hadKey) =>
        /\ ~last.err
        /\ last.keySame
        /\ last.res = last.keyAfter
        /\ last.nRead = 0
        /\ last.nWrite = 0
        /\ last.nApi = 0

\* C4: a GetStock(T) that misses the cache and the store and whose provider
\* call fails returns an error and no value, and leaves the store and the
\* cache entry of T as they were
C4_ProviderFailure ==
    (last.op = "GetStock" /\ ~last.hadKey /\ ~last.hadDoc /\ ~last.up) =>
        /\ last.err
        /\ last.res = Nil
        /\ last.nHttp > 0
        /\ last.nWrite = 0
        /\ last.dbSame
        /\ last.keySame

C4_Witness ==
    /\ last.op = "GetStock"
    /\ ~last.hadKey
    /\ ~last.hadDoc
    /\ ~last.up
    /\ last.err
    /\ Len(db) > 0

\* C6: the store never holds two Quote records with the same ticker
C6_QuoteUnique ==
    \A i, j \in 1..Len(db) :
        (i < j /\ db[i].kind = "stock" /\ db[j].kind = "stock")
            => db[i].v.ticker # db[j].v.ticker

NewsLookups == {"GetNewsByDate", "GetNewsByKeyword", "GetNewsByTicker"}

\* C5: a lookup that returns a result without error leaves it in the cache
\* under the key the lookup reads first when it came from the store, and in
\* the store and under that key when it came from the provider
C5_TierWarming ==
    (/\ last.op \in NewsLookups
     /\ ~last.err
     /\ ~last.res.nil
     /\ Len(last.res.v) > 0) =>
        /\ last.src = "store" => last.keyAfter = last.res
        /\ last.src = "provider" =>
              /\ last.keyAfter = last.res
              /\ \A i \in 1..Len(last.res.v) : InSeq(last.res.v[i], newsDb)

\* C8: every URL the provider has served in two fetches has exactly one
\* record in the store
C8_NoDuplicateOnRefetch ==
    \A u \in fn.twice :
        Cardinality({i \in 1..Len(newsDb) : newsDb[i].url = u}) = 1

(***************************************************************************)
(* Properties of generateNewsID (SpecID, SpecIDPair).                      *)
(***************************************************************************)
\* C9: generateNewsID applied to one URL at two times returns the same id
C9_IdDeterminism ==
    fn.stage = "out" => fn.id1 = fn.id2

\* a URL whose last segment is empty, converted at two different times
C9_Witness ==
    /\ fn.stage = "out"
    /\ fn.t1 # fn.t2
    /\ Len(fn.url) = MaxUrlLen
    /\ fn.url[Len(fn.url)] = "/"
    /\ fn.id1 = <<>>

\* C10: two articles with different URLs get different ids, and saving both
\* leaves two records in the store
C10_IdNonCollision ==
    (fn.stage = "out" /\ fn.a # fn.b) =>
        /\ fn.ida # fn.idb
        /\ Len(newsDb) = 2

(***************************************************************************)
(* Properties of the services (SpecRank, SpecLimit, SpecCross).  fn        *)
(* describes the service call that returned last.                          *)
(***************************************************************************)
Least(a, b) == IF a < b THEN a ELSE b

Reverse(s) == [i \in 1..Len(s) |-> s[Len(s) + 1 - i]]

PercentChanges(s) == [i \in 1..Len(s) |-> s[i].changePerc]

Occurrences(s, x) == Cardinality({i \in 1..Len(s) : s[i] = x})

AtLeast(s, v) == Cardinality({i \in 1..Len(s) : s[i].changePerc >= v})

\* C11: GetMOEXTopGainers(N) with N > 0 returns min(N, universe size) quotes
\* in non-increasing order of percent-change, each at most as often as the
\* universe holds it, and they are the largest percent-changes of the
\* universe: at every percent-change v of the universe, the result holds as
\* many quotes at or above v as the universe does, up to N
C11_TopGainers ==
    (fn.op = "GetMOEXTopGainers" /\ ~fn.err /\ fn.limit > 0) =>
        /\ Len(fn.res.v) = Least(fn.limit, Len(fn.universe))
        /\ \A i \in 1..(Len(fn.res.v) - 1) :
              fn.res.v[i].changePerc >= fn.res.v[i + 1].changePerc
        /\ \A i \in 1..Len(fn.res.v) :
              Occurrences(fn.res.v, fn.res.v[i]) <= Occurrences(fn.universe, fn.res.v[i])
        /\ \A i \in 1..Len(fn.universe) :
              AtLeast(fn.res.v, fn.universe[i].changePerc)
                = Least(fn.limit, AtLeast(fn.universe, fn.universe[i].changePerc))

\* a universe in rising order with a tie, cut below its size
C11_Witness ==
    /\ fn.op = "GetMOEXTopGainers"
    /\ ~fn.err
    /\ fn.limit > 1
    /\ fn.limit < Len(fn.universe)
    /\ fn.universe[1].changePerc < fn.universe[2].changePerc
    /\ fn.universe[2].changePerc = fn.universe[3].changePerc
    /\ fn.src = "store"

\* C12 as claimed: GetMOEXTopLosers(N) returns min(N, universe size) quotes in
\* non-decreasing order of percent-change, and with N at least the universe
\* size it is GetMOEXTopGainers(N) reversed
C12_LosersReverseGainers ==
    (fn.op = "GetMOEXTopLosers" /\ ~fn.err /\ fn.limit > 0) =>
        /\ Len(fn.res.v) = Least(fn.limit, Len(fn.universe))
        /\ \A i \in 1..(Len(fn.res.v) - 1) :
              fn.res.v[i].changePerc <= fn.res.v[i + 1].changePerc
        /\ fn.limit >= Len(fn.universe) => fn.res.v = Reverse(fn.twin.v)

\* C12 as amended: GetMOEXTopLosers(N) returns min(N, universe size) quotes in
\* non-decreasing order of percent-change; with N at least the universe size
\* its percent-changes are those of GetMOEXTopGainers(N) reversed, and it is
\* GetMOEXTopGainers(N) reversed when no two quotes of the universe have the
\* same percent-change
C12_LosersMirrorGainers ==
    (fn.op = "GetMOEXTopLosers" /\ ~fn.err /\ fn.limit > 0) =>
        /\ Len(fn.res.v) = Least(fn.limit, Len(fn.universe))
        /\ \A i \in 1..(Len(fn.res.v) - 1) :
              fn.res.v[i].changePerc <= fn.res.v[i + 1].changePerc
        /\ fn.limit >= Len(fn.universe) =>
              /\ PercentChanges(fn.res.v) = Reverse(PercentChanges(fn.twin.v))
              /\ (\A i, j \in 1..Len(fn.universe) :
                     i # j => fn.universe[i].changePerc # fn.universe[j].changePerc)
                   => fn.res.v = Reverse(fn.twin.v)

\* a universe of distinct percent-changes in neither order, returned whole
C12_Witness ==
    /\ fn.op = "GetMOEXTopLosers"
    /\ ~fn.err
    /\ Len(fn.universe) = 3
    /\ fn.limit >= Len(fn.universe)
    /\ fn.universe[2].changePerc < fn.universe[1].changePerc
    /\ fn.universe[1].changePerc < fn.universe[3].changePerc
    /\ fn.res.v = Reverse(fn.twin.v)

LimitCalls ==
    {"GetMOEXTopGainers", "GetMOEXTopLosers", "GetMOEXTopVolume", "GetRecentNews"}

\* C13: a call with a limit that is not positive returns what the call with
\* limit 10 returns in the same state: min(10, available count) items
C13_DefaultLimit ==
    (fn.op \in LimitCalls /\ fn.limit <= 0) =>
        /\ fn.res = fn.ref
        /\ ~fn.err => Len(fn.res.v) = Least(DefaultLimit, Len(fn.universe))

\* eleven news of today, asked for with a negative limit
C13_Witness ==
    /\ fn.op = "GetRecentNews"
    /\ fn.limit < 0
    /\ ~fn.err
    /\ Len(fn.universe) > DefaultLimit
    /\ Len(fn.res.v) = DefaultLimit

\* the letters of a ticker or a name of the roster
Spell(t) == IF RosterIdx(t) > 0 THEN popularTickers[RosterIdx(t)] ELSE <<>>

\* C14: SearchStocks(q) with a non-empty q returns, in universe order, the
\* quotes whose ticker or name contains q without regard to case, and so
\* nothing when q occurs in no ticker and no name
C14_SearchStocks ==
    (fn.op = "SearchStocks" /\ fn.arg # <<>> /\ ~fn.err) =>
        fn.res.v = SelectSeq(fn.universe,
                      LAMBDA x : \/ Contains(ToLower(Spell(x.ticker)), ToLower(fn.arg))
                                 \/ Contains(ToLower(Spell(x.name)), ToLower(fn.arg)))

\* C15: no news id occurs twice in the result of GetNewsForMultipleTickers
C15_MultiNoDuplicate ==
    (fn.op = "GetNewsForMultipleTickers" /\ ~fn.err) =>
        \A i, j \in 1..Len(fn.res.v) : i < j => fn.res.v[i].id # fn.res.v[j].id

\* today's news hold an item related to both tickers asked for, which is
\* returned, and two items under one id
C15_Witness ==
    /\ fn.op = "GetNewsForMultipleTickers"
    /\ ~fn.err
    /\ Len(fn.arg) = 2
    /\ \E i \in 1..Len(fn.res.v) :
          InSeq(fn.arg[1], fn.res.v[i].relatedTo) /\ InSeq(fn.arg[2], fn.res.v[i].relatedTo)
    /\ \E i, j \in 1..Len(fn.universe) : i < j /\ fn.universe[i].id = fn.universe[j].id

\* the relation of a news item to a ticker
RelatedTo(news, ticker) ==
    \/ InSeq(ticker, news.relatedTo)
    \/ Contains(ToLower(news.title), ToLower(ticker))
    \/ Contains(ToLower(news.description), ToLower(ticker))
    \/ Contains(ToLower(news.content), ToLower(ticker))

\* C16: GetNewsForMultipleTickers(tickers) returns an item of today's news
\* if and only if the item is related to one of the tickers
C16_CrossReference ==
    (fn.op = "GetNewsForMultipleTickers" /\ ~fn.err) =>
        \A i \in 1..Len(fn.universe) :
            InSeq(fn.universe[i], fn.res.v)
              <=> \E k \in 1..Len(fn.arg) : RelatedTo(fn.universe[i], fn.arg[k])

\* the validated calls by the kind of their input: a ticker, or a keyword,
\* a query, an id or a list of tickers
TickerCalls == {"GetStockInfo", "GetStockQuote", "GetStockHistoricalData"}
TextCalls ==
    {"GetNewsForTicker", "SearchNewsByKeyword", "SearchStocks", "GetNewsById",
     "GetMultipleStocks", "GetNewsForMultipleTickers"}

\* C17: a service call with an empty ticker, keyword, query, id or ticker
\* list returns an error and no value, makes no cache operation, no store
\* read or write and no provider call, and leaves cache and store as they
\* were
C17_ValidationBeforeIO ==
    (\/ fn.op \in TickerCalls /\ fn.arg = ""
     \/ fn.op \in TextCalls /\ fn.arg = <<>>) =>
        /\ fn.err
        /\ fn.res = Nil
        /\ fn.nCache = 0
        /\ fn.nRead = 0
        /\ fn.nWrite = 0
        /\ fn.nApi = 0
        /\ fn.nHttp = 0
        /\ fn.same

\* an empty ticker is turned down while the store and the cache hold records
C17_Witness ==
    /\ fn.op = "GetStockHistoricalData"
    /\ fn.arg = ""
    /\ fn.err
    /\ Len(db) > 0
    /\ Len(newsDb) > 0
    /\ DOMAIN cache # {}

(***************************************************************************)
(* Properties of error handling (SpecFault, SpecQuote, SpecNewsFault).     *)
(* last.fault names the store operation that failed inside the call, and   *)
(* a call with last.nHttp > 0 and the provider down has had its request    *)
(* fail.                                                                   *)
(***************************************************************************)
\* C18: a lookup whose store read fails returns an error, calls no provider
\* and writes nothing to the store
C18_ReadFailureIsError ==
    (last.op = "GetStock" /\ last.fault = "read") =>
        /\ last.err
        /\ last.nApi = 0
        /\ last.nWrite = 0

ProviderLookups ==
    {"GetStock", "GetStocks", "GetStockQuote", "GetStockHistory", "getAllStocks",
     "GetNewsByDate", "GetNewsByKeyword", "GetNewsByTicker"}

\* C19: a lookup that missed cache and store and whose provider request
\* fails returns an error
C19_UpstreamErrorIsError ==
    (last.op \in ProviderLookups /\ last.nHttp > 0 /\ ~last.up) => last.err

\* C20: a lookup inside which a store write fails returns an error
C20_WriteFailureIsError ==
    (last.op \in ProviderLookups /\ last.fault = "write") => last.err

(***************************************************************************)
(* Properties of a failing cache (SpecCacheFault).                         *)
(***************************************************************************)
CacheLookups ==
    {"GetStock", "GetStocks", "getAllStocks", "GetStockQuote", "GetNews",
     "GetNewsByDate"}

\* C21: a lookup whose cache reads or cache writes fail returns what it
\* returns with a working cache that holds nothing for it (reads) or the same
\* entries (writes), leaves the store as that call leaves it, and so fails
\* only where that call fails
C21_CacheFailureIsMiss ==
    (last.op \in CacheLookups /\ last.fault \in CacheFaults) =>
        /\ last.res = fn.res
        /\ last.err = fn.err
        /\ db = fn.db
        /\ newsDb = fn.news

\* the cache holds an entry for a quote that the store holds too; the read
\* of the entry fails, and the lookup answers from the store
C21_Witness ==
    /\ last.op = "GetStock"
    /\ last.fault = "cacheRead"
    /\ last.hadKey
    /\ last.hadDoc
    /\ ~last.up
    /\ ~last.err
    /\ last.src = "store"

(***************************************************************************)
(* Properties of the cache backends (SpecCache).                           *)
(***************************************************************************)
CacheBackends == {"redis", "mem"}

\* C22: a Get of a key the backend holds returns something else than a Get
\* of a key it does not hold, which returns no error and leaves the
\* caller's value as it was; and a Get the backend fails returns an error
\* that is neither
C22_AbsentErrorPresent ==
    fn.op = "Get" =>
        /\ \A b \in CacheBackends :
              (fn.held[b] /\ ~(b = "redis" /\ fn.fault)) =>
                  fn[b] # [err |-> "nil", out |-> fn.arg]
        /\ fn.fault => fn.redis.err = "backend"

\* C23: a call that the Redis server does not fail returns the same from
\* both backends, and drops the same keys from both
C23_BackendsAgree ==
    (fn.op # "none" /\ ~fn.fault) =>
        /\ fn.redis = fn.mem
        /\ fn.gone.redis = fn.gone.mem

(***************************************************************************)
(* Properties of the upserts (SpecUpsert).                                 *)
(***************************************************************************)
Upserts == {"SaveStock", "SaveStockQuote", "SaveNews"}

\* C24 as claimed: an upsert applied twice in a row to the same input leaves
\* the store as one application leaves it
C24_UpsertIdempotent ==
    fn.op \in Upserts => fn.twice = fn.once

\* the store d with the UpdatedAt of the first record of ticker t set to at
Restamped(d, t, at) ==
    [i \in 1..Len(d) |->
        IF i = FirstMatch(d, LAMBDA x : x.v.ticker = t)
          THEN StockDoc([AsStock(d[i]) EXCEPT !.updatedAt = at])
          ELSE d[i]]

\* C24 as amended: an upsert applied twice in a row to the same input leaves
\* the store as one application leaves it, except that the record SaveStock
\* wrote has the time of the second application as its UpdatedAt
C24_UpsertIdempotentButStamp ==
    /\ fn.op \in {"SaveStockQuote", "SaveNews"} => fn.twice = fn.once
    /\ (fn.op = "SaveStock" /\ fn.arg.nil) => fn.twice = fn.once
    /\ (fn.op = "SaveStock" /\ ~fn.arg.nil) =>
          /\ fn.twice.news = fn.once.news
          /\ fn.twice.db = Restamped(fn.once.db, fn.arg.v.ticker, fn.at2)

\* SaveStock replaces a record among others, the clock moving on between
\* the two applications
C24_Witness ==
    /\ fn.op = "SaveStock"
    /\ ~fn.arg.nil
    /\ fn.at2 > fn.at1
    /\ Len(fn.once.db) > 2
    /\ fn.twice.db # fn.once.db
    /\ \E i \in 1..Len(db) : db[i].kind = "quote"
    /\ Len(newsDb) > 0

(***************************************************************************)
(* Properties of the keyword lookup (SpecKeyword).                         *)
(***************************************************************************)
\* the predicate of the news text search
KeywordMatches(n, k) ==
    \/ Contains(ToLower(n.title), ToLower(k))
    \/ Contains(ToLower(n.description), ToLower(k))
    \/ Contains(ToLower(n.content), ToLower(k))
    \/ InSeq(k, n.tags)
    \/ InSeq(k, n.relatedTo)

\* C25: a GetNewsByKeyword(k) answered by the store returns exactly the
\* stored items that have k, without regard to case, in their title,
\* description or body, or have k among their tags or their related tickers
C25_KeywordPredicate ==
    (last.op = "GetNewsByKeyword" /\ last.src = "store" /\ ~last.err) =>
        last.res.v = SelectSeq(newsDb, LAMBDA n : KeywordMatches(n, last.ticker))

(***************************************************************************)
(* Properties of concurrent calls (SpecRace).                              *)
(***************************************************************************)
BothDone(op) ==
    \A i \in Procs : fn[i].op = op /\ fn[i].pc = "done" /\ ~fn[i].err

RecordsOf(c) == {k \in 1..Len(db) : RaceFilter(c, db[k])}

\* C26: when two concurrent GetStock(T) on a cold system have both returned
\* a quote, the store holds exactly one record for T
C26_ConcurrentColdUnique ==
    (BothDone("GetStock") /\ fn[1].arg = fn[2].arg) =>
        Cardinality({k \in 1..Len(db) :
                        db[k].kind = "stock" /\ db[k].v.ticker = fn[1].arg}) = 1

\* C27: when two concurrent SaveStock for one ticker, or two concurrent
\* SaveStockQuote for one ticker and day, have both returned, the store holds
\* exactly one record for that key, with the value of one of the two calls
C27_ConcurrentUpsertAtomic ==
    \A op \in {"SaveStock", "SaveStockQuote"} :
        BothDone(op) =>
            /\ Cardinality(RecordsOf(fn[1])) = 1
            /\ \A k \in RecordsOf(fn[1]) :
                  \E i \in Procs : db[k] = RaceDoc(fn[i], fn[i].val.v)

(***************************************************************************)
(* Properties of the ranking order (SpecRank).                             *)
(***************************************************************************)
RankCalls == {"GetMOEXTopGainers", "GetMOEXTopLosers", "GetMOEXTopVolume"}

\* the sort key of a ranking call
RankKey(op, x) == IF op = "GetMOEXTopVolume" THEN x.volume ELSE x.changePerc

\* where the quote x stands in the fetched universe u
PlaceIn(u, x) == CHOOSE k \in 1..Len(u) : u[k] = x

\* C28: two quotes of a ranking with equal sort key stand in the result in
\* the order in which they stand in the fetched universe
C28_StableRanking ==
    (fn.op \in RankCalls /\ ~fn.err) =>
        \A i, j \in 1..Len(fn.res.v) :
            (i < j /\ RankKey(fn.op, fn.res.v[i]) = RankKey(fn.op, fn.res.v[j]))
                => PlaceIn(fn.universe, fn.res.v[i]) < PlaceIn(fn.universe, fn.res.v[j])

\* two quotes of equal volume move up past a quote of lower volume
C28_Witness ==
    /\ fn.op = "GetMOEXTopVolume"
    /\ ~fn.err
    /\ Len(fn.universe) = 3
    /\ Len(fn.res.v) = 3
    /\ fn.universe[1].volume < fn.universe[2].volume
    /\ fn.universe[2].volume = fn.universe[3].volume
    /\ fn.res.v = <<fn.universe[2], fn.universe[3], fn.universe[1]>>

(***************************************************************************)
(* Properties of ownership (SpecSole, SpecStore).                          *)
(***************************************************************************)
\* C29: no cache write of a call is made by a provider client (the clients
\* hold no handle of the store: every store write is the repository's)
C29_SoleWriter ==
    last.nApiSet = 0

\* the keys present in the store: the tickers of the quotes, the ticker
\* and day of the detailed quotes, the ids of the news
StoreKeys(d, n) ==
    {<<d[i].kind, d[i].v.ticker,
       IF d[i].kind = "quote" THEN FormatDay(d[i].v.date) ELSE 0>> : i \in 1..Len(d)}
      \cup {<<"news", n[i].id, 0>> : i \in 1..Len(n)}

\* C30: no step takes a key out of the store
C30_NeverDeleted ==
    [][StoreKeys(db, newsDb) \subseteq StoreKeys(db', newsDb')]_vars

(***************************************************************************)
(* Properties of a call stopped between its two writes (SpecStop).         *)
(***************************************************************************)
\* C31: a GetStock or SaveStock that stops after its store write leaves the
\* store holding the value it wrote; and the next GetStock of that ticker
\* that finds no cache entry returns that value from the store, without
\* asking the provider, and leaves it in the cache
C31_CrashSelfHeals ==
    /\ last.op \in {"GetStockStopped", "SaveStockStopped"} =>
          /\ \E i \in 1..Len(db) : db[i] = StockDoc(last.res.v)
          /\ AsStock(db[FirstMatch(db, LAMBDA d : d.v.ticker = last.ticker)])
                = last.res.v
    /\ (last.op = "GetStock" /\ ~fn.expect.nil /\ ~last.hadKey) =>
          /\ ~last.err
          /\ last.res = Some(fn.expect.v.val)
          /\ last.keyAfter = Some(fn.expect.v.val)
          /\ last.nHttp = 0
          /\ last.dbSame

\* a SaveStock stopped while the cache held the ticker's older quote, the
\* entry expired, and the next GetStock healed the cache
C31_Witness ==
    /\ last.op = "GetStock" /\ ~fn.expect.nil /\ ~last.hadKey
    /\ fn.expect.v.by = "SaveStock"
    /\ last.keyAfter = Some(fn.expect.v.val)
    /\ last.ticker = "SBER"

(***************************************************************************)
(* Properties of a fetch cut short (SpecCut).                              *)
(***************************************************************************)
\* C32: a getAllStocks whose roster fetch or whose inserts were cut short
\* leaves the store and the cache as they were
C32_NoPartialWrites ==
    (last.op = "getAllStocks" /\ last.err /\ fn.cut # "none") =>
        last.dbSame /\ fn.cacheSame

(***************************************************************************)
(* Properties of the id fallback (SpecID).                                 *)
(***************************************************************************)
\* the part of the URL after its last "/"
LastSegment(url) ==
    LET S == {i \in 1..Len(url) : url[i] = "/"}
        from == IF S = {} THEN 0 ELSE CHOOSE i \in S : \A j \in S : j <= i
    IN  SubSeq(url, from + 1, Len(url))

\* a segment up to its first "?", "#" or "."
Stem(seg) ==
    LET S == {i \in 1..Len(seg) : seg[i] \in {"?", "#", "."}}
        to == IF S = {} THEN Len(seg) + 1 ELSE CHOOSE i \in S : \A j \in S : i <= j
    IN  SubSeq(seg, 1, to - 1)

\* C33: a URL with no last path segment (empty, or ending in "/") gets the
\* timestamp id, every other URL the stem of its last segment, and the id is
\* never empty
C33_IdFallback ==
    fn.stage = "out" =>
        /\ fn.id1 # <<>>
        /\ IF LastSegment(fn.url) = <<>>
             THEN fn.id1 = StampID(fn.t1)
             ELSE fn.id1 = Stem(LastSegment(fn.url))

(***************************************************************************)
(* Properties of the cache against the store (Spec).                       *)
(***************************************************************************)
\* what the store returns for GetStock's and for getAllStocks' query
StoredStock(t) == AsStock(db[FirstMatch(db, LAMBDA d : d.v.ticker = t)])

StoredStocks == [i \in 1..Len(db) |-> AsStock(db[i])]

StockEntriesCoherent ==
    \A k \in DOMAIN cache :
        k[1] = "stock" => HasTicker(k[2]) /\ cache[k] = StoredStock(k[2])

\* C34: every cache entry stock:<T> equals the store's record of T, and the
\* all_stocks entry equals the store's list of records
C34_CacheStoreCoherent ==
    /\ StockEntriesCoherent
    /\ AllKey \in DOMAIN cache => cache[AllKey] = StoredStocks

(***************************************************************************)
(* Properties of the shared collection (SpecKinds).                        *)
(***************************************************************************)
\* the store holds s as a record written as a Quote
WrittenAsStock(s) == \E i \in 1..Len(db) : db[i] = StockDoc(s)

\* C35: what GetStock returns, and every element of what getAllStocks and
\* GetStocks return, is a record of the store that was written as a Quote
C35_KindSeparation ==
    /\ (last.op = "GetStock" /\ ~last.err) => WrittenAsStock(last.res.v)
    /\ (last.op \in {"getAllStocks", "GetStocks"} /\ ~last.err) =>
          \A i \in 1..Len(last.res.v) : WrittenAsStock(last.res.v[i])

\* C36: getAllStocks answers with the provider's roster, which it stores,
\* when the store is empty; when the store holds a record it answers with
\* exactly the store's records and sends the provider nothing
C36_UniverseSource ==
    (last.op = "getAllStocks" /\ ~last.err) =>
        IF last.hadDoc
          THEN last.res.v = StoredStocks /\ last.nHttp = 0 /\ last.dbSame
          ELSE /\ [i \in 1..Len(last.res.v) |-> last.res.v[i].ticker] = Roster
               /\ last.res.v = StoredStocks

C38_SyntheticQuoteWellFormed ==
    (last.op = "GetStockQuote" /\ ~last.err /\ last.src = "provider") =>
        LET q == last.res.v
            s == StoredStock(last.ticker)
        IN  /\ q.close = 10 * s.price
            /\ q.open = 10 * (s.price - s.change)
            /\ q.low <= q.open /\ q.low <= q.close
            /\ q.open <= q.high /\ q.close <= q.high

(***************************************************************************)
(* Properties of the generated history (SpecSpan).                         *)
(***************************************************************************)
\* the weekdays among s, s + 24h, s + 48h, ... up to e, in ascending order
WeekdaysOf(s, e) ==
    LET n == IF e < s THEN 0 ELSE ((e - s) \div 24) + 1
        F[k \in 0..n] ==
            IF k = 0 THEN <<>>
            ELSE IF Weekday(s + 24 * (k - 1)) \in 1..5
              THEN Append(F[k - 1], s + 24 * (k - 1))
              ELSE F[k - 1]
    IN  F[n]

\* C39: a GetStockHistory that finds no history in the cache or the store
\* returns no error and one detailed quote of the ticker for each weekday of
\* the range, in ascending order, and none for a Saturday or Sunday; over a
\* range that ends before it starts it returns nothing and leaves the cache
\* as it was
C39_SynthesisedHistory ==
    (last.op = "GetStockHistory" /\ ~last.hadKey /\ ~last.hadDoc) =>
        /\ ~last.err
        /\ [i \in 1..Len(last.res.v) |-> last.res.v[i].date] = WeekdaysOf(fn.s, fn.e)
        /\ \A i \in 1..Len(last.res.v) : last.res.v[i].ticker = last.ticker
        /\ fn.e < fn.s => last.res.v = <<>> /\ fn.cacheSame

(***************************************************************************)
(* Properties of the tiers under ranking and search (SpecRank).            *)
(***************************************************************************)
UniverseCalls ==
    {"GetMOEXTopGainers", "GetMOEXTopLosers", "GetMOEXTopVolume", "SearchStocks"}

\* C40: a ranking or search whose universe came from the cache leaves the
\* store and the cache as they were, the all_stocks entry still being the
\* list the call read, in its order
C40_RankingLeavesTiers ==
    (fn.op \in UniverseCalls /\ ~fn.err /\ fn.src = "cache") =>
        /\ fn.same
        /\ AllKey \in DOMAIN cache => cache[AllKey] = fn.universe

\* a losers ranking served from an InMemoryCache whose list it had to
\* reorder, the entry keeping the order it had
C40_Witness ==
    /\ fn.op = "GetMOEXTopLosers" /\ ~fn.err /\ fn.src = "cache"
    /\ cfg.inMemory
    /\ fn.limit = MaxUniverse
    /\ Len(fn.universe) = MaxUniverse
    /\ fn.res.v # fn.universe
    /\ AllKey \in DOMAIN cache /\ cache[AllKey] = fn.universe

====
